---- MODULE Spec2Model ----
(***************************************************************************)
(* Model of the stratagent repository.                                     *)
(*                                                                         *)
(* Part 1: the asynchronous job runner (api/routes/analysis.py and         *)
(* api/worker/runner.py): the in-memory job_store, the analyze endpoint,   *)
(* the run_analysis coroutine on the event loop, the pipeline it hands to  *)
(* a worker thread, and get_job_status pollers in the server's threadpool. *)
(*                                                                         *)
(* Part 2: the lazily constructed reranker of retrieval/retriever.py       *)
(* (_get_reranker, reset_retriever_cache) used by concurrent threads.      *)
(*                                                                         *)
(* Part 3: the cached embedding client, index connection and vector store  *)
(* of ingestion/upsert.py (get_vector_store, reset_upsert_cache) as used   *)
(* by upsert_documents and by _vector_search of retrieval/retriever.py.    *)
(*                                                                         *)
(* Part 4: the retrieval pipeline of retrieval/retriever.py (retriever,    *)
(* rerank, retrieve_with_rerank) as functions of their arguments, of the   *)
(* settings, and of what the index and the reranker model answer.          *)
(*                                                                         *)
(* Part 5: ingestion: upsert_documents of ingestion/upsert.py with the     *)
(* text splitter and the store's add_documents, a retry after a failed     *)
(* batch, and the /ingest/upload handler of api/main.py.                   *)
(*                                                                         *)
(* Part 6: the crew of agents/crew.py with the tasks of agents/tasks.py,   *)
(* and the research agent's RetrievalTool (agents/tools/retrieval_tool.py).*)
(***************************************************************************)
EXTENDS Integers, Sequences, FiniteSets, TLC

\* ------------------------------------------------------------------ bounds
\* Number of submissions (analyze calls) explored.
MaxJobs == 2
\* Number of concurrent get_job_status callers.
NumPollers == 1
\* Number of threads using the reranker cache, and of calls they make in all.
NumRerankThreads == 2
MaxRerankCalls == 3
\* Number of threads using the ingestion caches, and of calls they make in all.
NumStoreThreads == 2
MaxStoreCalls == 3
\* Length of a sequence of calls made one after another.
MaxSeqCalls == 3
\* Number of documents the index holds or a caller hands to rerank, and the
\* length of a query string.
MaxDocs == 3
MaxQueryLen == 1
\* Length of a document's text.
MaxTextLen == 2

JobIds == 1..MaxJobs
Pollers == 1..NumPollers
RerankThreads == 1..NumRerankThreads
StoreThreads == 1..NumStoreThreads

\* Python's None, and "no coroutine on the event loop".
None == "None"
NoJob == 0
AnalyzeCall == -1

\* ------------------------------------------------------------- job runner
VARIABLES
    job_store,     \* runner.py:9  job_id -> [status, result, error]
    next_uuid,     \* how many identifiers uuid.uuid4() has handed out
    analyze_id,    \* the job_id local of the analyze call in flight, or NoJob
    scheduled,     \* job_id -> number of run_analysis tasks added for it
    returned,      \* job ids handed back to clients by analyze (status pending)
    rpc,           \* job_id -> position of its run_analysis coroutine
    exc,           \* job_id -> the exception run_analysis caught, or None
    loop_owner,    \* the coroutine occupying the event loop, or NoJob
    poll           \* poller -> the state of its get_job_status call

\* --------------------------------------------------------- reranker cache
VARIABLES
    _reranker,       \* retriever.py:16  the cached FlagReranker, or NoInstance
    reranker_lock,   \* retriever.py:20  the thread holding _reranker_lock, or NoThread
    reranker_built,  \* how many FlagReranker instances have been constructed
    rr_calls,        \* calls begun so far
    rr_resets,       \* reset_retriever_cache calls that have cleared the cache
    rthr             \* thread -> [pc, op, got]

\* ------------------------------------------------------- ingestion caches
VARIABLES
    _embedding_model, \* upsert.py:20  the cached PineconeEmbeddings, or NoInstance
    _pinecone_index,  \* upsert.py:21  the cached index connection, or NoInstance
    _vector_store,    \* upsert.py:22  the cached PineconeVectorStore, or NoStore
    emb_built,        \* how many PineconeEmbeddings have been constructed
    idx_built,        \* how many index connections have been opened
    store_built,      \* how many PineconeVectorStore have been constructed
    index_exists,     \* whether the configured index exists at the service
    index_creates, index_spec,    \* how many create_index requests have been issued
    remote,           \* the namespaces of the index that hold records
    st_calls,         \* calls begun so far
    after_reset,      \* whether the call that completed last was a reset
    overlap,          \* whether calls of different threads may overlap
    sthr              \* thread -> the state of its call

\* ------------------------------------------------------ retrieval pipeline
VARIABLES
    settings,  \* settings.py:65  the values of the Settings object the pipeline reads
    rq         \* the retrieval call in progress or completed, with its outcome

\* --------------------------------------------------------------- ingestion
VARIABLES
    up,               \* the upsert_documents call made, its arguments and its outcome
    pinecone_records, \* the records the index holds: [id, text, ns]
    uuid_issued,      \* how many record identifiers uuid.uuid4() has handed out
    upload,           \* the /ingest/upload request in progress
    tmp_files         \* the temporary files on disk, by position of their upload

\* -------------------------------------------------------- crew and its tool
VARIABLES
    crew,      \* the crew StratAgentCrew.run builds and kicks off
    tool_out   \* what RetrievalTool._run returned to the research agent

job_vars == <<job_store, next_uuid, analyze_id, scheduled, returned, rpc, exc,
              loop_owner, poll>>

rr_vars == <<_reranker, reranker_lock, reranker_built, rr_calls, rr_resets, rthr>>

store_vars == <<_embedding_model, _pinecone_index, _vector_store, emb_built, idx_built,
                store_built, index_exists, index_creates, index_spec, remote, st_calls, after_reset, overlap, sthr>>

retrieval_vars == <<settings, rq>>

ingest_vars == <<up, pinecone_records, uuid_issued, upload, tmp_files>>

crew_vars == <<crew, tool_out>>

\* What the actions of one part leave alone.
non_job_vars == <<rr_vars, store_vars, retrieval_vars, ingest_vars, crew_vars>>
non_rr_vars == <<job_vars, store_vars, retrieval_vars, ingest_vars, crew_vars>>
non_store_vars == <<job_vars, rr_vars, retrieval_vars, ingest_vars, crew_vars>>

vars == <<job_store, next_uuid, analyze_id, scheduled, returned, rpc, exc,
          loop_owner, poll,
          _reranker, reranker_lock, reranker_built, rr_calls, rr_resets, rthr,
          _embedding_model, _pinecone_index, _vector_store, emb_built, idx_built,
          store_built, index_exists, index_creates, index_spec, remote, st_calls, after_reset, overlap, sthr,
          settings, rq,
          up, pinecone_records, uuid_issued, upload, tmp_files,
          crew, tool_out>>

\* No call on the reranker cache, or on the ingestion caches, is in progress.
RerankQuiet == \A t \in RerankThreads : rthr[t].pc \in {"idle", "done"}
StoreQuiet == \A t \in StoreThreads : sthr[t].pc \in {"idle", "done"}

\* A call may begin: always when calls overlap, otherwise only when no other
\* call is in progress and the sequence of calls is not at its bound yet.
MayBegin == overlap \/ (RerankQuiet /\ StoreQuiet /\ st_calls + rr_calls < MaxSeqCalls)

\* JobStatus (schemas.py:8-14)
JobStatus == {"pending", "running", "completed", "failed"}

\* analysis.py:22, the record stored on submission
PendingRecord == [status |-> "pending", result |-> None, error |-> None]

\* analysis.py:21, uuid.uuid4(): a version-4 UUID, modelled as a value never
\* handed out before (the next of a counter).
uuid4 == next_uuid + 1

\* analysis.py:22, job_store[job_id] = {...}: insert or overwrite.
analyze_store_skip(js, id) == js
analyze_store(js, id) ==
    [k \in (DOMAIN js) \cup {id} |-> IF k = id THEN PendingRecord ELSE js[k]]

\* runner.py:14,24,25,28,29, job_store[job_id][field] = value
SetField_all(js, id, f, v) == [k \in DOMAIN js |-> [js[k] EXCEPT ![f] = v]]
SetField(js, id, f, v) == [js EXCEPT ![id][f] = v]

\* runner.py:19-23, await asyncio.to_thread(crew.run, ...): the pipeline runs
\* in a worker thread and the coroutine is suspended, so the loop is released.
PipelineLoopOwner_blocking(j) == j
PipelineLoopOwner(j) == NoJob

\* runner.py:27-28, the status the except branch records.
ExceptStatus_completed == "completed"
ExceptStatus == "failed"

IdlePoll == [pc |-> "idle", job_id |-> NoJob, status |-> None, result |-> None,
             error |-> None]

JobInitVars ==
    /\ job_store = <<>>
    /\ next_uuid = 0
    /\ analyze_id = NoJob
    /\ scheduled = [j \in JobIds |-> 0]
    /\ returned = {}
    /\ rpc = [j \in JobIds |-> "none"]
    /\ exc = [j \in JobIds |-> None]
    /\ loop_owner = NoJob
    /\ poll = [p \in Pollers |-> IdlePoll]

\* analyze, analysis.py:21-22: draw the id and store the pending record.  The
\* endpoint is a coroutine: it occupies the event loop until it returns.
AnalyzeStore ==
    /\ loop_owner = NoJob
    /\ next_uuid < MaxJobs
    /\ analyze_id' = uuid4
    /\ next_uuid' = next_uuid + 1
    /\ job_store' = analyze_store(job_store, uuid4)
    /\ loop_owner' = AnalyzeCall
    /\ UNCHANGED <<scheduled, returned, rpc, exc, poll>>
    /\ UNCHANGED non_job_vars

\* analyze, analysis.py:23-28: add the background task, return the id with
\* status pending.  The task starts after the response has been sent.
AnalyzeSchedule ==
    /\ loop_owner = AnalyzeCall
    /\ scheduled' = [scheduled EXCEPT ![analyze_id] = @ + 1]
    /\ rpc' = [rpc EXCEPT ![analyze_id] = "scheduled"]
    /\ returned' = returned \cup {analyze_id}
    /\ analyze_id' = NoJob
    /\ loop_owner' = NoJob
    /\ UNCHANGED <<job_store, next_uuid, exc, poll>>
    /\ UNCHANGED non_job_vars

\* run_analysis, runner.py:14: outside the try block, so a missing record
\* (KeyError) escapes to the scheduler.
RunStart(j) ==
    /\ rpc[j] = "scheduled"
    /\ loop_owner = NoJob
    /\ IF j \in DOMAIN job_store
       THEN /\ job_store' = SetField(job_store, j, "status", "running")
            /\ rpc' = [rpc EXCEPT ![j] = "start"]
            /\ loop_owner' = j
       ELSE /\ rpc' = [rpc EXCEPT ![j] = "raised"]
            /\ UNCHANGED <<job_store, loop_owner>>
    /\ UNCHANGED <<next_uuid, analyze_id, scheduled, returned, exc, poll>>
    /\ UNCHANGED non_job_vars

\* runner.py:18-19: StratAgentCrew() returns and the pipeline is handed to a
\* worker thread.
CrewConstructOk(j) ==
    /\ rpc[j] = "start"
    /\ rpc' = [rpc EXCEPT ![j] = "pipeline"]
    /\ loop_owner' = PipelineLoopOwner(j)
    /\ UNCHANGED <<job_store, next_uuid, analyze_id, scheduled, returned, exc, poll>>
    /\ UNCHANGED non_job_vars

\* runner.py:18,27: StratAgentCrew() raises.
CrewConstructRaises(j) ==
    /\ rpc[j] = "start"
    /\ rpc' = [rpc EXCEPT ![j] = "except"]
    /\ exc' = [exc EXCEPT ![j] = "crew_error"]
    /\ UNCHANGED <<job_store, next_uuid, analyze_id, scheduled, returned, loop_owner, poll>>
    /\ UNCHANGED non_job_vars

\* runner.py:19-23: crew.run returned a brief; the coroutine resumes on the
\* loop once the loop is free.
PipelineReturns(j) ==
    /\ rpc[j] = "pipeline"
    /\ loop_owner = PipelineLoopOwner(j)
    /\ rpc' = [rpc EXCEPT ![j] = "got_brief"]
    /\ loop_owner' = j
    /\ UNCHANGED <<job_store, next_uuid, analyze_id, scheduled, returned, exc, poll>>
    /\ UNCHANGED non_job_vars

\* runner.py:19-23,27: crew.run raised in the worker thread; the await
\* re-raises it in the coroutine.  str(e) of an exception of the crew is
\* "crew_error" whether its constructor or its run raised it.
PipelineRaises(j) ==
    /\ rpc[j] = "pipeline"
    /\ loop_owner = PipelineLoopOwner(j)
    /\ rpc' = [rpc EXCEPT ![j] = "except"]
    /\ exc' = [exc EXCEPT ![j] = "crew_error"]
    /\ loop_owner' = j
    /\ UNCHANGED <<job_store, next_uuid, analyze_id, scheduled, returned, poll>>
    /\ UNCHANGED non_job_vars

\* runner.py:24
SetCompleted(j) ==
    /\ rpc[j] = "got_brief"
    /\ job_store' = SetField(job_store, j, "status", "completed")
    /\ rpc' = [rpc EXCEPT ![j] = "completed_set"]
    /\ UNCHANGED <<next_uuid, analyze_id, scheduled, returned, exc, loop_owner, poll>>
    /\ UNCHANGED non_job_vars

\* runner.py:25-26: brief.model_dump() returns; the coroutine ends.
SetResult(j) ==
    /\ rpc[j] = "completed_set"
    /\ job_store' = SetField(job_store, j, "result", "brief")
    /\ rpc' = [rpc EXCEPT ![j] = "done"]
    /\ loop_owner' = NoJob
    /\ UNCHANGED <<next_uuid, analyze_id, scheduled, returned, exc, poll>>
    /\ UNCHANGED non_job_vars

\* runner.py:25,27: brief.model_dump() raises inside the try block.
ModelDumpRaises(j) ==
    /\ rpc[j] = "completed_set"
    /\ rpc' = [rpc EXCEPT ![j] = "except"]
    /\ exc' = [exc EXCEPT ![j] = "dump_error"]
    /\ UNCHANGED <<job_store, next_uuid, analyze_id, scheduled, returned, loop_owner, poll>>
    /\ UNCHANGED non_job_vars

\* runner.py:28
SetFailed(j) ==
    /\ rpc[j] = "except"
    /\ job_store' = SetField(job_store, j, "status", ExceptStatus)
    /\ rpc' = [rpc EXCEPT ![j] = "failed_set"]
    /\ UNCHANGED <<next_uuid, analyze_id, scheduled, returned, exc, loop_owner, poll>>
    /\ UNCHANGED non_job_vars

\* runner.py:29-30: error = str(e); the coroutine ends.
SetError(j) ==
    /\ rpc[j] = "failed_set"
    /\ job_store' = SetField(job_store, j, "error", exc[j])
    /\ rpc' = [rpc EXCEPT ![j] = "done"]
    /\ loop_owner' = NoJob
    /\ UNCHANGED <<next_uuid, analyze_id, scheduled, returned, exc, poll>>
    /\ UNCHANGED non_job_vars

\* get_job_status is a plain def: the server accepts the request on the event
\* loop and runs the function in a threadpool thread.
PollDispatch(p, id) ==
    /\ poll[p].pc = "idle"
    /\ loop_owner = NoJob
    /\ poll' = [poll EXCEPT ![p] = [IdlePoll EXCEPT !.pc = "check", !.job_id = id]]
    /\ UNCHANGED <<job_store, next_uuid, analyze_id, scheduled, returned, rpc, exc, loop_owner>>
    /\ UNCHANGED non_job_vars

\* analysis.py:39-41: 404 unless the id is in job_store; j = job_store[job_id]
PollCheck(p) ==
    /\ poll[p].pc = "check"
    /\ poll' = [poll EXCEPT ![p].pc = IF poll[p].job_id \in DOMAIN job_store
                                      THEN "read_status" ELSE "raise_404"]
    /\ UNCHANGED <<job_store, next_uuid, analyze_id, scheduled, returned, rpc, exc, loop_owner>>
    /\ UNCHANGED non_job_vars

\* analysis.py:44, JobStatus(j["status"])
PollReadStatus(p) ==
    /\ poll[p].pc = "read_status"
    /\ poll' = [poll EXCEPT ![p].status = job_store[poll[p].job_id].status,
                            ![p].pc = "read_result"]
    /\ UNCHANGED <<job_store, next_uuid, analyze_id, scheduled, returned, rpc, exc, loop_owner>>
    /\ UNCHANGED non_job_vars

\* analysis.py:45, j.get("result")
PollReadResult(p) ==
    /\ poll[p].pc = "read_result"
    /\ poll' = [poll EXCEPT ![p].result = job_store[poll[p].job_id].result,
                            ![p].pc = "read_error"]
    /\ UNCHANGED <<job_store, next_uuid, analyze_id, scheduled, returned, rpc, exc, loop_owner>>
    /\ UNCHANGED non_job_vars

\* analysis.py:46, j.get("error")
PollReadError(p) ==
    /\ poll[p].pc = "read_error"
    /\ poll' = [poll EXCEPT ![p].error = job_store[poll[p].job_id].error,
                            ![p].pc = "respond"]
    /\ UNCHANGED <<job_store, next_uuid, analyze_id, scheduled, returned, rpc, exc, loop_owner>>
    /\ UNCHANGED non_job_vars

\* analysis.py:40,42-47: the response (or the 404) goes out through the loop.
PollRespond(p) ==
    /\ poll[p].pc \in {"respond", "raise_404"}
    /\ loop_owner = NoJob
    /\ poll' = [poll EXCEPT ![p].pc = IF poll[p].pc = "respond"
                                      THEN "responded" ELSE "responded_404"]
    /\ UNCHANGED <<job_store, next_uuid, analyze_id, scheduled, returned, rpc, exc, loop_owner>>
    /\ UNCHANGED non_job_vars

\* The client polls again.
PollAgain(p) ==
    /\ poll[p].pc \in {"responded", "responded_404"}
    /\ poll' = [poll EXCEPT ![p] = IdlePoll]
    /\ UNCHANGED <<job_store, next_uuid, analyze_id, scheduled, returned, rpc, exc, loop_owner>>
    /\ UNCHANGED non_job_vars

\* The steps of one get_job_status call.
PollStep(p) ==
    \/ \E id \in JobIds : PollDispatch(p, id)
    \/ PollCheck(p)
    \/ PollReadStatus(p)
    \/ PollReadResult(p)
    \/ PollReadError(p)
    \/ PollRespond(p)

JobNext ==
    \/ AnalyzeStore
    \/ AnalyzeSchedule
    \/ \E j \in JobIds : RunStart(j)
    \/ \E j \in JobIds : CrewConstructOk(j)
    \/ \E j \in JobIds : CrewConstructRaises(j)
    \/ \E j \in JobIds : PipelineReturns(j)
    \/ \E j \in JobIds : PipelineRaises(j)
    \/ \E j \in JobIds : SetCompleted(j)
    \/ \E j \in JobIds : SetResult(j)
    \/ \E j \in JobIds : ModelDumpRaises(j)
    \/ \E j \in JobIds : SetFailed(j)
    \/ \E j \in JobIds : SetError(j)
    \/ \E p \in Pollers : PollStep(p)
    \/ \E p \in Pollers : PollAgain(p)


\* ---------------------------------------------------------- reranker cache
\* A cache slot holding no instance (Python's None), and "no thread".
NoInstance == 0
NoThread == 0

IdleThread == [pc |-> "idle", op |-> "none", got |-> NoInstance]

RerankInitVars ==
    /\ _reranker = NoInstance
    /\ reranker_lock = NoThread
    /\ reranker_built = 0
    /\ rr_calls = 0
    /\ rr_resets = 0
    /\ rthr = [t \in RerankThreads |-> IdleThread]

\* retriever.py:26, the second test, made with the lock held.
DoubleCheck_skipped(r) == TRUE
DoubleCheck(r) == r = NoInstance

\* A thread calls _get_reranker (from rerank, retriever.py:115).
GetRerankerCall(t) ==
    /\ rthr[t].pc \in {"idle", "done"}
    /\ MayBegin
    /\ rr_calls < MaxRerankCalls
    /\ rr_calls' = rr_calls + 1
    /\ rthr' = [rthr EXCEPT ![t] = [pc |-> "check1", op |-> "get", got |-> NoInstance]]
    /\ UNCHANGED <<_reranker, reranker_lock, reranker_built, rr_resets>>
    /\ UNCHANGED non_rr_vars

\* retriever.py:24, the first test, made without the lock.
GetRerankerCheck1(t) ==
    /\ rthr[t].pc = "check1"
    /\ rthr' = [rthr EXCEPT ![t].pc = IF _reranker = NoInstance THEN "acquire" ELSE "return"]
    /\ UNCHANGED <<_reranker, reranker_lock, reranker_built, rr_calls, rr_resets>>
    /\ UNCHANGED non_rr_vars

\* retriever.py:25, with _reranker_lock: blocks while another thread holds it.
GetRerankerAcquire(t) ==
    /\ rthr[t].pc = "acquire"
    /\ reranker_lock = NoThread
    /\ reranker_lock' = t
    /\ rthr' = [rthr EXCEPT ![t].pc = "check2"]
    /\ UNCHANGED <<_reranker, reranker_built, rr_calls, rr_resets>>
    /\ UNCHANGED non_rr_vars

\* retriever.py:26
GetRerankerCheck2(t) ==
    /\ rthr[t].pc = "check2"
    /\ rthr' = [rthr EXCEPT ![t].pc = IF DoubleCheck(_reranker) THEN "construct" ELSE "release"]
    /\ UNCHANGED <<_reranker, reranker_lock, reranker_built, rr_calls, rr_resets>>
    /\ UNCHANGED non_rr_vars

\* retriever.py:27, _reranker = FlagReranker(...)
GetRerankerConstruct(t) ==
    /\ rthr[t].pc = "construct"
    /\ reranker_built' = reranker_built + 1
    /\ _reranker' = reranker_built + 1
    /\ rthr' = [rthr EXCEPT ![t].pc = "release"]
    /\ UNCHANGED <<reranker_lock, rr_calls, rr_resets>>
    /\ UNCHANGED non_rr_vars

\* retriever.py:25-27, leaving the with block releases the lock.
GetRerankerRelease(t) ==
    /\ rthr[t].pc = "release"
    /\ reranker_lock' = NoThread
    /\ rthr' = [rthr EXCEPT ![t].pc = "return"]
    /\ UNCHANGED <<_reranker, reranker_built, rr_calls, rr_resets>>
    /\ UNCHANGED non_rr_vars

\* retriever.py:28, return _reranker: the global is read again, without the lock.
GetRerankerReturn(t) ==
    /\ rthr[t].pc = "return"
    /\ rthr' = [rthr EXCEPT ![t].pc = "done", ![t].got = _reranker]
    /\ UNCHANGED <<_reranker, reranker_lock, reranker_built, rr_calls, rr_resets>>
    /\ UNCHANGED non_rr_vars

\* A thread calls reset_retriever_cache.
ResetRetrieverCall(t) ==
    /\ rthr[t].pc \in {"idle", "done"}
    /\ MayBegin
    /\ rr_calls < MaxRerankCalls
    /\ rr_calls' = rr_calls + 1
    /\ rthr' = [rthr EXCEPT ![t] = [pc |-> "reset_acquire", op |-> "reset", got |-> NoInstance]]
    /\ UNCHANGED <<_reranker, reranker_lock, reranker_built, rr_resets>>
    /\ UNCHANGED non_rr_vars

\* retriever.py:33, with _reranker_lock
ResetRetrieverAcquire(t) ==
    /\ rthr[t].pc = "reset_acquire"
    /\ reranker_lock = NoThread
    /\ reranker_lock' = t
    /\ rthr' = [rthr EXCEPT ![t].pc = "reset_clear"]
    /\ UNCHANGED <<_reranker, reranker_built, rr_calls, rr_resets>>
    /\ UNCHANGED non_rr_vars

\* retriever.py:34, _reranker = None, then the lock is released.
ResetRetrieverClear(t) ==
    /\ rthr[t].pc = "reset_clear"
    /\ _reranker' = NoInstance
    /\ reranker_lock' = NoThread
    /\ rr_resets' = rr_resets + 1
    /\ rthr' = [rthr EXCEPT ![t].pc = "done"]
    /\ UNCHANGED <<reranker_built, rr_calls>>
    /\ UNCHANGED non_rr_vars

RerankNext ==
    \/ \E t \in RerankThreads : GetRerankerCall(t)
    \/ \E t \in RerankThreads : GetRerankerCheck1(t)
    \/ \E t \in RerankThreads : GetRerankerAcquire(t)
    \/ \E t \in RerankThreads : GetRerankerCheck2(t)
    \/ \E t \in RerankThreads : GetRerankerConstruct(t)
    \/ \E t \in RerankThreads : GetRerankerRelease(t)
    \/ \E t \in RerankThreads : GetRerankerReturn(t)
    \/ \E t \in RerankThreads : ResetRetrieverCall(t)
    \/ \E t \in RerankThreads : ResetRetrieverAcquire(t)
    \/ \E t \in RerankThreads : ResetRetrieverClear(t)

\* ------------------------------------------------------- ingestion caches

\* The namespace arguments callers pass: two named partitions, or None for
\* the index's default namespace.
Namespaces == {"A", "B", None}

\* No vector store cached (Python's None).
NoStore == [id |-> 0, ns |-> None, emb |-> NoInstance, idx |-> NoInstance]

\* built: which of the three objects this call has constructed; fresh: whether
\* the call began right after a completed reset; listed: whether the service
\* listed the index when the call asked.
IdleCall == [pc |-> "idle", op |-> "none", ns |-> None, gvs_ns |-> None,
             model |-> NoInstance, index |-> NoInstance, store |-> NoStore,
             used_ns |-> None, hits |-> {}, built |-> {}, fresh |-> FALSE,
             listed |-> FALSE]

\* settings.py:33, embedding_dimensions
EmbeddingDimensions == 1024

\* upsert.py:47-51, what create_index asks for; and no index.
ConfiguredIndexSpec == [dimension |-> EmbeddingDimensions, metric |-> "cosine"]
NoIndexSpec == [dimension |-> 0, metric |-> None]

\* upsert.py:46, `index_name not in pc.list_indexes().names()`
IndexMissing_always(listed) == TRUE
IndexMissing(listed) == ~listed

StoreInitVars ==
    /\ _embedding_model = NoInstance
    /\ _pinecone_index = NoInstance
    /\ _vector_store = NoStore
    /\ emb_built = 0
    /\ idx_built = 0
    /\ store_built = 0
    /\ index_exists \in BOOLEAN
    /\ index_creates = 0
    /\ index_spec = IF index_exists THEN ConfiguredIndexSpec ELSE NoIndexSpec
    /\ remote = {}
    /\ st_calls = 0
    /\ after_reset = FALSE
    /\ overlap \in BOOLEAN
    /\ sthr = [t \in StoreThreads |-> IdleCall]

\* upsert.py:124, storage = get_vector_store(): the namespace the upsert hands
\* to get_vector_store.
UpsertStoreNamespace(namespace) == None

\* upsert.py:57, the test that decides whether a store is constructed.
StoreMissing_always(store, namespace) == TRUE
StoreMissing(store, namespace) == store = NoStore

\* upsert.py:72-74, what reset_upsert_cache leaves in _vector_store.
StoreAfterReset(store) == store

\* A call begins (without overlap, only when no other call is in progress).
BeginCall(t, op, ns, gvs, firstpc) ==
    /\ sthr[t].pc \in {"idle", "done"}
    /\ MayBegin
    /\ st_calls < MaxStoreCalls
    /\ st_calls' = st_calls + 1
    /\ sthr' = [sthr EXCEPT ![t] = [IdleCall EXCEPT !.pc = firstpc, !.op = op, !.ns = ns,
                                                    !.gvs_ns = gvs, !.fresh = after_reset]]
    /\ UNCHANGED <<_embedding_model, _pinecone_index, _vector_store, emb_built, idx_built,
                   store_built, index_exists, index_creates, index_spec, remote, after_reset, overlap>>
    /\ UNCHANGED non_store_vars

\* retriever.py:43, _vector_search(query, k, namespace) asks for the store of
\* its namespace argument.
VectorSearchCall(t, ns) == BeginCall(t, "search", ns, ns, "gvs_check")

\* upsert.py:106-124, upsert_documents(documents, namespace=ns) with a
\* non-empty list: chunk, then ask for the store.
UpsertCall(t, ns) == BeginCall(t, "upsert", ns, UpsertStoreNamespace(ns), "gvs_check")

\* upsert.py:24, a direct call of _get_embedding_model().
GetEmbeddingCall(t) == BeginCall(t, "get_embedding", None, None, "emb_check")

\* upsert.py:35, a direct call of _get_pinecone_index().
GetIndexCall(t) == BeginCall(t, "get_index", None, None, "idx_check")

\* upsert.py:55, a direct call of get_vector_store(namespace=ns).
GetVectorStoreCall(t, ns) == BeginCall(t, "get_store", ns, ns, "gvs_check")

\* upsert.py:70-72, reset_upsert_cache()
ResetUpsertCall(t) == BeginCall(t, "reset", None, None, "reset_emb")

\* upsert.py:57
GvsCheck(t) ==
    /\ sthr[t].pc = "gvs_check"
    /\ sthr' = [sthr EXCEPT ![t].pc = IF StoreMissing(_vector_store, sthr[t].gvs_ns)
                                      THEN "emb_check" ELSE "gvs_return"]
    /\ UNCHANGED <<_embedding_model, _pinecone_index, _vector_store, emb_built, idx_built,
                   store_built, index_exists, index_creates, index_spec, remote, st_calls, after_reset, overlap>>
    /\ UNCHANGED non_store_vars

\* upsert.py:27
EmbCheck(t) ==
    /\ sthr[t].pc = "emb_check"
    /\ sthr' = [sthr EXCEPT ![t].pc = IF _embedding_model = NoInstance
                                      THEN "emb_build" ELSE "emb_return"]
    /\ UNCHANGED <<_embedding_model, _pinecone_index, _vector_store, emb_built, idx_built,
                   store_built, index_exists, index_creates, index_spec, remote, st_calls, after_reset, overlap>>
    /\ UNCHANGED non_store_vars

\* upsert.py:28-31
EmbBuild(t) ==
    /\ sthr[t].pc = "emb_build"
    /\ emb_built' = emb_built + 1
    /\ _embedding_model' = emb_built + 1
    /\ sthr' = [sthr EXCEPT ![t].pc = "emb_return", ![t].built = @ \cup {"embedding"}]
    /\ UNCHANGED <<_pinecone_index, _vector_store, idx_built,
                   store_built, index_exists, index_creates, index_spec, remote, st_calls, after_reset, overlap>>
    /\ UNCHANGED non_store_vars

\* upsert.py:32 and 58: return _embedding_model reads the global again; a
\* direct call ends here, get_vector_store goes on to the index.
EmbReturn(t) ==
    /\ sthr[t].pc = "emb_return"
    /\ sthr' = [sthr EXCEPT ![t].pc = IF sthr[t].op = "get_embedding" THEN "done" ELSE "idx_check",
                            ![t].model = _embedding_model]
    /\ after_reset' = IF sthr[t].op = "get_embedding" THEN FALSE ELSE after_reset
    /\ UNCHANGED <<_embedding_model, _pinecone_index, _vector_store, emb_built, idx_built,
                   store_built, index_exists, index_creates, index_spec, remote, st_calls, overlap>>
    /\ UNCHANGED non_store_vars

\* upsert.py:38
IdxCheck(t) ==
    /\ sthr[t].pc = "idx_check"
    /\ sthr' = [sthr EXCEPT ![t].pc = IF _pinecone_index = NoInstance
                                      THEN "idx_list" ELSE "idx_return"]
    /\ UNCHANGED <<_embedding_model, _pinecone_index, _vector_store, emb_built, idx_built,
                   store_built, index_exists, index_creates, index_spec, remote, st_calls, after_reset, overlap>>
    /\ UNCHANGED non_store_vars

\* upsert.py:39-46: open the client and ask the service for its indexes.
IdxList(t) ==
    /\ sthr[t].pc = "idx_list"
    /\ sthr' = [sthr EXCEPT ![t].pc = "idx_build", ![t].listed = index_exists]
    /\ UNCHANGED <<_embedding_model, _pinecone_index, _vector_store, emb_built, idx_built,
                   store_built, index_exists, index_creates, index_spec, remote, st_calls, after_reset, overlap>>
    /\ UNCHANGED non_store_vars

\* upsert.py:46-52: create the index if the service did not list it, then
\* connect to it.  The service refuses to create an index that exists by
\* now (another caller created it since the listing); the call ends with
\* that error.
IdxBuild(t) ==
    /\ sthr[t].pc = "idx_build"
    /\ index_creates' = IF IndexMissing(sthr[t].listed) THEN index_creates + 1 ELSE index_creates
    /\ index_exists' = TRUE
    /\ index_spec' = IF index_exists THEN index_spec ELSE ConfiguredIndexSpec
    /\ IF IndexMissing(sthr[t].listed) /\ index_exists
       THEN /\ sthr' = [sthr EXCEPT ![t].pc = "done", ![t].op = "raised",
                                    ![t].model = NoInstance, ![t].listed = FALSE]
            /\ after_reset' = FALSE
            /\ UNCHANGED <<idx_built, _pinecone_index>>
       ELSE /\ idx_built' = idx_built + 1
            /\ _pinecone_index' = idx_built + 1
            /\ sthr' = [sthr EXCEPT ![t].pc = "idx_return", ![t].built = @ \cup {"index"},
                                    ![t].listed = FALSE]
            /\ UNCHANGED after_reset
    /\ UNCHANGED <<_embedding_model, _vector_store, emb_built,
                   store_built, remote, st_calls, overlap>>
    /\ UNCHANGED non_store_vars

\* upsert.py:53 and 59: return _pinecone_index reads the global again; a
\* direct call ends here, get_vector_store goes on to construct the store.
IdxReturn(t) ==
    /\ sthr[t].pc = "idx_return"
    /\ sthr' = [sthr EXCEPT ![t].pc = IF sthr[t].op = "get_index" THEN "done" ELSE "store_build",
                            ![t].index = _pinecone_index]
    /\ after_reset' = IF sthr[t].op = "get_index" THEN FALSE ELSE after_reset
    /\ UNCHANGED <<_embedding_model, _pinecone_index, _vector_store, emb_built, idx_built,
                   store_built, index_exists, index_creates, index_spec, remote, st_calls, overlap>>
    /\ UNCHANGED non_store_vars

\* upsert.py:61-64: the store is constructed over the two handles, with the
\* namespace keyword only when the argument is not None.  A handle read as
\* None (after a concurrent reset) makes the store's constructor raise, and
\* the call ends with that error.
StoreBuild(t) ==
    /\ sthr[t].pc = "store_build"
    /\ IF sthr[t].model # NoInstance /\ sthr[t].index # NoInstance
       THEN /\ store_built' = store_built + 1
            /\ _vector_store' = [id |-> store_built + 1, ns |-> sthr[t].gvs_ns,
                                 emb |-> sthr[t].model, idx |-> sthr[t].index]
            /\ sthr' = [sthr EXCEPT ![t].pc = "gvs_return", ![t].built = @ \cup {"store"}]
            /\ UNCHANGED after_reset
       ELSE /\ sthr' = [sthr EXCEPT ![t].pc = "done", ![t].op = "raised",
                                    ![t].model = NoInstance, ![t].index = NoInstance]
            /\ after_reset' = FALSE
            /\ UNCHANGED <<store_built, _vector_store>>
    /\ UNCHANGED <<_embedding_model, _pinecone_index, emb_built, idx_built,
                   index_exists, index_creates, index_spec, remote, st_calls, overlap>>
    /\ UNCHANGED non_store_vars

\* upsert.py:66, return _vector_store; a direct call ends here, a search or
\* an upsert goes on to use the store.
GvsReturn(t) ==
    /\ sthr[t].pc = "gvs_return"
    /\ sthr' = [sthr EXCEPT ![t].pc = IF sthr[t].op = "get_store" THEN "done" ELSE "exec",
                            ![t].store = _vector_store,
                            ![t].model = NoInstance, ![t].index = NoInstance]
    /\ after_reset' = IF sthr[t].op = "get_store" THEN FALSE ELSE after_reset
    /\ UNCHANGED <<_embedding_model, _pinecone_index, _vector_store, emb_built, idx_built,
                   store_built, index_exists, index_creates, index_spec, remote, st_calls, overlap>>
    /\ UNCHANGED non_store_vars

\* retriever.py:44-46, store.similarity_search_with_score(query, k=k): the
\* store searches the namespace it was constructed with.
SearchExec(t) ==
    /\ sthr[t].pc = "exec"
    /\ sthr[t].op = "search"
    /\ sthr' = [sthr EXCEPT ![t].pc = "done",
                            ![t].used_ns = sthr[t].store.ns,
                            ![t].hits = remote \cap {sthr[t].store.ns}]
    /\ after_reset' = FALSE
    /\ UNCHANGED <<_embedding_model, _pinecone_index, _vector_store, emb_built, idx_built,
                   store_built, index_exists, index_creates, index_spec, remote, st_calls, overlap>>
    /\ UNCHANGED non_store_vars

\* upsert.py:126-133, storage.add_documents(documents=chunks, ...): the store
\* writes into the namespace it was constructed with.
UpsertExec(t) ==
    /\ sthr[t].pc = "exec"
    /\ sthr[t].op = "upsert"
    /\ remote' = remote \cup {sthr[t].store.ns}
    /\ sthr' = [sthr EXCEPT ![t].pc = "done", ![t].used_ns = sthr[t].store.ns]
    /\ after_reset' = FALSE
    /\ UNCHANGED <<_embedding_model, _pinecone_index, _vector_store, emb_built, idx_built,
                   store_built, index_exists, index_creates, index_spec, st_calls, overlap>>
    /\ UNCHANGED non_store_vars

\* upsert.py:73, _embedding_model = None
ResetEmb(t) ==
    /\ sthr[t].pc = "reset_emb"
    /\ _embedding_model' = NoInstance
    /\ sthr' = [sthr EXCEPT ![t].pc = "reset_idx"]
    /\ UNCHANGED <<_pinecone_index, _vector_store, emb_built, idx_built,
                   store_built, index_exists, index_creates, index_spec, remote, st_calls, after_reset, overlap>>
    /\ UNCHANGED non_store_vars

\* upsert.py:74, _pinecone_index = None; the function returns.
ResetIdx(t) ==
    /\ sthr[t].pc = "reset_idx"
    /\ _pinecone_index' = NoInstance
    /\ _vector_store' = StoreAfterReset(_vector_store)
    /\ sthr' = [sthr EXCEPT ![t].pc = "done"]
    /\ after_reset' = TRUE
    /\ UNCHANGED <<_embedding_model, emb_built, idx_built,
                   store_built, index_exists, index_creates, index_spec, remote, st_calls, overlap>>
    /\ UNCHANGED non_store_vars

StoreNext ==
    \/ \E t \in StoreThreads, ns \in Namespaces : VectorSearchCall(t, ns)
    \/ \E t \in StoreThreads, ns \in Namespaces : UpsertCall(t, ns)
    \/ \E t \in StoreThreads : ResetUpsertCall(t)
    \/ \E t \in StoreThreads : GvsCheck(t)
    \/ \E t \in StoreThreads : EmbCheck(t)
    \/ \E t \in StoreThreads : EmbBuild(t)
    \/ \E t \in StoreThreads : EmbReturn(t)
    \/ \E t \in StoreThreads : IdxCheck(t)
    \/ \E t \in StoreThreads : IdxList(t)
    \/ \E t \in StoreThreads : IdxBuild(t)
    \/ \E t \in StoreThreads : IdxReturn(t)
    \/ \E t \in StoreThreads : StoreBuild(t)
    \/ \E t \in StoreThreads : GvsReturn(t)
    \/ \E t \in StoreThreads : SearchExec(t)
    \/ \E t \in StoreThreads : UpsertExec(t)
    \/ \E t \in StoreThreads : ResetEmb(t)
    \/ \E t \in StoreThreads : ResetIdx(t)

\* Direct calls of the four cached accessors and of the two resets.
AccessorNext ==
    \/ RerankNext
    \/ \E t \in StoreThreads : GetEmbeddingCall(t)
    \/ \E t \in StoreThreads : GetIndexCall(t)
    \/ \E t \in StoreThreads, ns \in Namespaces : GetVectorStoreCall(t, ns)
    \/ \E t \in StoreThreads : ResetUpsertCall(t)
    \/ \E t \in StoreThreads : GvsCheck(t)
    \/ \E t \in StoreThreads : EmbCheck(t)
    \/ \E t \in StoreThreads : EmbBuild(t)
    \/ \E t \in StoreThreads : EmbReturn(t)
    \/ \E t \in StoreThreads : IdxCheck(t)
    \/ \E t \in StoreThreads : IdxList(t)
    \/ \E t \in StoreThreads : IdxBuild(t)
    \/ \E t \in StoreThreads : IdxReturn(t)
    \/ \E t \in StoreThreads : StoreBuild(t)
    \/ \E t \in StoreThreads : GvsReturn(t)
    \/ \E t \in StoreThreads : ResetEmb(t)
    \/ \E t \in StoreThreads : ResetIdx(t)

\* ------------------------------------------------------ retrieval pipeline
\* retriever.py:83, the range of k the retriever accepts.
MinK == 1
MaxK == 1000

\* settings.py:37-40, the defaults of the values the pipeline reads.  Scores
\* and thresholds are counted in units of 0.00001.
DefaultRetrievalTopK == 20
DefaultRerankTopK == 5
DefaultRetrieverThreshold == 0
DefaultRerankerThreshold == 0

DefaultSettings ==
    [retrieval_top_k |-> DefaultRetrievalTopK, rerank_top_k |-> DefaultRerankTopK,
     retriever_threshold |-> DefaultRetrieverThreshold,
     reranker_threshold |-> DefaultRerankerThreshold]

\* The settings a deployment may run with: the defaults, or values taken from
\* the environment (thresholds switched on, a default k outside the range).
SettingsChoices ==
    {DefaultSettings,
     [retrieval_top_k |-> MinK - 1, rerank_top_k |-> 1,
      retriever_threshold |-> 50000, reranker_threshold |-> 50000],
     [retrieval_top_k |-> MaxK + 1, rerank_top_k |-> 2,
      retriever_threshold |-> DefaultRetrieverThreshold, reranker_threshold |-> 50000]}

\* A query is a string over a blank and a letter.
Chars == {" ", "q"}
Queries == UNION {[1..n -> Chars] : n \in 0..MaxQueryLen}

\* An optional integer argument: <<>> is Python's None, <<k>> the value k.
NoneK == <<>>
RetrievalKs == {NoneK, <<MinK - 2>>, <<MinK - 1>>, <<MinK>>, <<2>>, <<MaxK>>, <<MaxK + 1>>}
RerankKs == {NoneK, <<-1>>, <<0>>, <<1>>, <<2>>, <<10>>}

Docs == 1..MaxDocs

\* What the index answers: its hits in its own ranking, similarity descending.
SimScores == {0, 50000}
IndexResponses ==
    UNION {{[i \in 1..n |-> [doc |-> n + 1 - i, score |-> sims[i]]] :
               sims \in {f \in [1..n -> SimScores] :
                            \A i \in 1..n : \A j \in i..n : f[i] >= f[j]}} :
           n \in 0..MaxDocs}

\* Candidate lists a caller hands to rerank: distinct documents in any order.
DocLists ==
    UNION {{f \in [1..n -> Docs] : \A i, j \in 1..n : f[i] = f[j] => i = j} :
           n \in 0..MaxDocs}

\* What the reranker model answers with normalize=True: a score per document.
\* Documents outside docset get the lowest score (they are never scored).
LowScore == 30000
RerankScores == {LowScore, 50000, 90000}
ScoreFns(docset) ==
    {f \in [Docs -> RerankScores] : \A d \in Docs \ docset : f[d] = LowScore}

Min(a, b) == IF a <= b THEN a ELSE b
Max(a, b) == IF a >= b THEN a ELSE b

\* str.lstrip / str.rstrip / str.strip on blanks
RECURSIVE lstrip(_)
lstrip(s) == IF s # <<>> /\ Head(s) = " " THEN lstrip(Tail(s)) ELSE s

RECURSIVE rstrip(_)
rstrip(s) == IF s # <<>> /\ s[Len(s)] = " " THEN rstrip(SubSeq(s, 1, Len(s) - 1)) ELSE s

strip(s) == rstrip(lstrip(s))

\* retriever.py:80, 108, 173: `not query or not query.strip()`
QueryIsEmpty_never(query) == FALSE
QueryIsEmpty(query) == query = <<>> \/ strip(query) = <<>>

\* retriever.py:83: `k_val < 1 or k_val > 1000`
KOutOfRange_upper_only(k_val) == k_val > MaxK
KOutOfRange(k_val) == k_val < MinK \/ k_val > MaxK

\* retriever.py:45: `score >= settings.retriever_threshold`
PassesRetrieverThreshold_strict(score) == score > settings.retriever_threshold
PassesRetrieverThreshold(score) == score >= settings.retriever_threshold

\* retriever.py:127: `score > settings.reranker_threshold`
PassesRerankerThreshold_inclusive(score) == score >= settings.reranker_threshold
PassesRerankerThreshold(score) == score > settings.reranker_threshold

\* retriever.py:106: `not documents`
NoDocuments_never(documents) == FALSE
NoDocuments(documents) == documents = <<>>

\* retriever.py:178: `not candidates`
NoCandidates(candidates) == candidates = <<>>

\* Python's seq[:k]: the first k items, or all but the last -k when k < 0.
SliceTo(seq, k) ==
    IF k >= 0 THEN SubSeq(seq, 1, Min(k, Len(seq)))
    ELSE SubSeq(seq, 1, Max(Len(seq) + k, 0))

\* round(score, 4) in units of 0.00001
Round4(score) == ((score + 5) \div 10) * 10

\* The error messages.
QueryError == "Query cannot be empty"
KError == "k must be between 1 and 1000"
IndexError == "index error"

\* The outcome of a call: the error raised (or None) or the list returned, the
\* k asked of the index (<<>> when it was not queried), whether the reranker
\* was obtained and called, and the rerank_score metadata written.
Outcome(err, docs, asked_k, reranked, meta) ==
    [err |-> err, docs |-> docs, asked_k |-> asked_k, reranked |-> reranked, meta |-> meta]

Raise(err) == Outcome(err, <<>>, <<>>, FALSE, {})

\* store.similarity_search_with_score(query, k=k): the k best hits.  For k
\* below 1 the service either rejects the request or answers with no hit.
IndexModes(k) == IF k < 1 THEN {"error", "empty"} ELSE {"ok"}
similarity_search_with_score(hits, k) == SubSeq(hits, 1, Max(Min(k, Len(hits)), 0))

\* retriever.py:37-46
_vector_search(hits, k, mode) ==
    IF mode = "error" THEN Outcome(IndexError, <<>>, <<k>>, FALSE, {})
    ELSE LET results == similarity_search_with_score(hits, k)
             kept == SelectSeq(results, LAMBDA h : PassesRetrieverThreshold(h.score))
             candidates == [i \in 1..Len(kept) |-> kept[i].doc]
         IN Outcome(None, candidates, <<k>>, FALSE, {})

\* retriever.py:79-88
retriever(query, k, hits, mode) ==
    IF QueryIsEmpty(query) THEN Raise(QueryError)
    ELSE LET k_val == IF k # NoneK THEN k[1] ELSE settings.retrieval_top_k
         IN IF KOutOfRange(k_val) THEN Raise(KError)
            ELSE _vector_search(hits, k_val, mode)

\* reranker_model.compute_score(pairs, normalize=True): a float for a single
\* pair, a list otherwise (retriever.py:118).
compute_score(documents, rscore) ==
    IF Len(documents) = 1 THEN [float |-> rscore[documents[1]]]
    ELSE [list |-> [i \in 1..Len(documents) |-> rscore[documents[i]]]]

\* retriever.py:119-120
ScoreList(scores) == IF "float" \in DOMAIN scores THEN <<scores.float>> ELSE scores.list

\* sorted(docs_with_scores, key=score, reverse=True): insertion keeps items of
\* equal score in their input order.
RECURSIVE InsertDesc_unstable(_, _)
InsertDesc_unstable(s, x) ==
    IF s = <<>> THEN <<x>>
    ELSE IF Head(s).score > x.score THEN <<Head(s)>> \o InsertDesc_unstable(Tail(s), x)
    ELSE <<x>> \o s

RECURSIVE InsertDesc(_, _)
InsertDesc(s, x) ==
    IF s = <<>> THEN <<x>>
    ELSE IF Head(s).score >= x.score THEN <<Head(s)>> \o InsertDesc(Tail(s), x)
    ELSE <<x>> \o s

RECURSIVE sorted_reverse(_)
sorted_reverse(s) ==
    IF s = <<>> THEN <<>>
    ELSE InsertDesc(sorted_reverse(SubSeq(s, 1, Len(s) - 1)), s[Len(s)])

\* retriever.py:111-112, the k that rerank slices with.
RerankSliceK(k, documents) ==
    Min(IF k # NoneK THEN k[1] ELSE settings.rerank_top_k, Len(documents))

\* retriever.py:91-132
rerank(query, documents, k, rscore) ==
    IF NoDocuments(documents) THEN Outcome(None, <<>>, <<>>, FALSE, {})
    ELSE IF QueryIsEmpty(query) THEN Raise(QueryError)
    ELSE LET k2 == RerankSliceK(k, documents)
             scores == ScoreList(compute_score(documents, rscore))
             docs_with_scores ==
                 [i \in 1..Min(Len(documents), Len(scores)) |->
                     [doc |-> documents[i], score |-> scores[i]]]
             reranked == sorted_reverse(docs_with_scores)
             top == SelectSeq(SliceTo(reranked, k2),
                              LAMBDA x : PassesRerankerThreshold(x.score))
         IN Outcome(None, [i \in 1..Len(top) |-> top[i].doc], <<>>, TRUE,
                    {<<top[i].doc, Round4(top[i].score)>> : i \in 1..Len(top)})

\* retriever.py:176, the k the combined pipeline asks of the index.
PipelineK(retrieval_k) ==
    IF retrieval_k # NoneK THEN retrieval_k[1] ELSE settings.retrieval_top_k

\* retriever.py:178-182: return [] when there is no candidate, and only
\* otherwise hand the candidates to rerank.
RerankCandidates_eager(query, found, rerank_k, rscore) ==
    [rerank(query, found.docs, rerank_k, rscore)
         EXCEPT !.asked_k = found.asked_k, !.reranked = TRUE]
RerankCandidates(query, found, rerank_k, rscore) ==
    IF NoCandidates(found.docs) THEN found
    ELSE [rerank(query, found.docs, rerank_k, rscore) EXCEPT !.asked_k = found.asked_k]

\* retriever.py:172-182
retrieve_with_rerank(query, retrieval_k, rerank_k, hits, mode, rscore) ==
    IF QueryIsEmpty(query) THEN Raise(QueryError)
    ELSE LET found == _vector_search(hits, PipelineK(retrieval_k), mode)
         IN IF found.err # None THEN found
            ELSE RerankCandidates(query, found, rerank_k, rscore)

\* The state of the one retrieval call a behaviour makes.
IdleRq ==
    [pc |-> "idle", op |-> "none", query |-> <<>>, k |-> NoneK, rerank_k |-> NoneK,
     ns |-> None, hits |-> <<>>, mode |-> "ok", documents |-> <<>>,
     rscore |-> [d \in Docs |-> LowScore], out |-> Raise(None)]

RetrievalInitVars ==
    /\ settings \in SettingsChoices
    /\ rq = IdleRq

\* upsert.py:55-66 run to completion by one caller: when asked is true,
\* get_vector_store(namespace=ns) constructs what is missing and caches it.
GetVectorStoreBuilds(asked, ns) ==
    LET build == asked /\ StoreMissing(_vector_store, ns)
        model == IF _embedding_model = NoInstance THEN emb_built + 1 ELSE _embedding_model
        index == IF _pinecone_index = NoInstance THEN idx_built + 1 ELSE _pinecone_index
    IN /\ _embedding_model' = IF build THEN model ELSE _embedding_model
       /\ emb_built' = IF build /\ _embedding_model = NoInstance THEN emb_built + 1 ELSE emb_built
       /\ _pinecone_index' = IF build THEN index ELSE _pinecone_index
       /\ idx_built' = IF build /\ _pinecone_index = NoInstance THEN idx_built + 1 ELSE idx_built
       /\ index_exists' = (index_exists \/ (build /\ _pinecone_index = NoInstance))
       /\ index_creates' = IF build /\ _pinecone_index = NoInstance /\ IndexMissing(index_exists)
                           THEN index_creates + 1 ELSE index_creates
       /\ index_spec' = IF build /\ _pinecone_index = NoInstance /\ ~index_exists
                        THEN ConfiguredIndexSpec ELSE index_spec
       /\ _vector_store' = IF build
                           THEN [id |-> store_built + 1, ns |-> ns, emb |-> model, idx |-> index]
                           ELSE _vector_store
       /\ store_built' = IF build THEN store_built + 1 ELSE store_built

\* A call that constructs the caches and does nothing else to the index.
GetVectorStoreEffect(asked, ns) ==
    /\ GetVectorStoreBuilds(asked, ns)
    /\ UNCHANGED <<remote, st_calls, after_reset, overlap, sthr>>

\* retriever.py:22-28 run to completion by one caller: when asked is true,
\* _get_reranker() constructs the model if none is cached.
GetRerankerEffect(asked) ==
    LET build == asked /\ _reranker = NoInstance
    IN /\ _reranker' = IF build THEN reranker_built + 1 ELSE _reranker
       /\ reranker_built' = IF build THEN reranker_built + 1 ELSE reranker_built
       /\ UNCHANGED <<reranker_lock, rr_calls, rr_resets, rthr>>

\* A call ends with its outcome; the caches hold what it constructed.
CallEffect(call, out) ==
    /\ rq' = [call EXCEPT !.pc = "done", !.out = out]
    /\ GetVectorStoreEffect(out.asked_k # <<>>, call.ns)
    /\ GetRerankerEffect(out.reranked)
    /\ UNCHANGED settings
    /\ UNCHANGED <<job_vars, ingest_vars>>

FinishCall(call, out) ==
    /\ rq.pc = "idle"
    /\ CallEffect(call, out)
    /\ UNCHANGED crew_vars

\* The documents of an index response, and of a candidate list.
DocsOf(hits) == {hits[i].doc : i \in 1..Len(hits)}
Members(documents) == {documents[i] : i \in 1..Len(documents)}

\* retriever.py:60-88, retriever.invoke({"query": query, "k": k, "namespace": ns})
RetrieverCall ==
    /\ rq.pc = "idle"
    /\ \E query \in Queries, k \in RetrievalKs, ns \in Namespaces, hits \in IndexResponses :
           FinishCall([IdleRq EXCEPT !.op = "retriever", !.query = query, !.k = k,
                                     !.ns = ns, !.hits = hits],
                      retriever(query, k, hits, "ok"))

\* retriever.py:91-132, rerank(query, documents, k)
RerankCall ==
    /\ rq.pc = "idle"
    /\ \E query \in Queries, documents \in DocLists, k \in RerankKs :
           \E rscore \in ScoreFns(Members(documents)) :
               FinishCall([IdleRq EXCEPT !.op = "rerank", !.query = query, !.rerank_k = k,
                                         !.documents = documents, !.rscore = rscore],
                          rerank(query, documents, k, rscore))

\* retriever.py:149-182, retrieve_with_rerank.invoke({"query": query,
\* "retrieval_k": retrieval_k, "rerank_k": rerank_k, "namespace": ns})
RetrieveWithRerankCall ==
    /\ rq.pc = "idle"
    /\ \E query \in Queries, retrieval_k \in RetrievalKs, rerank_k \in RerankKs,
          ns \in Namespaces, hits \in IndexResponses :
           \E mode \in IndexModes(PipelineK(retrieval_k)), rscore \in ScoreFns(DocsOf(hits)) :
               FinishCall([IdleRq EXCEPT !.op = "retrieve_with_rerank", !.query = query,
                                         !.k = retrieval_k, !.rerank_k = rerank_k, !.ns = ns,
                                         !.hits = hits, !.mode = mode, !.rscore = rscore],
                          retrieve_with_rerank(query, retrieval_k, rerank_k, hits, mode, rscore))

RetrievalNext ==
    \/ RetrieverCall
    \/ RerankCall
    \/ RetrieveWithRerankCall

\* --------------------------------------------------------------- ingestion

\* A document's page_content is a string over a blank and a letter; a call
\* hands over no, one or two documents.
Texts == UNION {[1..n -> Chars] : n \in 0..MaxTextLen}
DocumentLists == {<<>>} \cup {<<t>> : t \in Texts} \cup {<<t, u>> : t, u \in Texts}

\* The chunking arguments callers pass, valid and invalid.
ChunkSizes == {0, 1, 2}
ChunkOverlaps == {0, 1, 2}

\* embedding_chunk_size: None, or one chunk per embedding request.
EmbeddingChunkSizes == {NoneK, <<1>>}

\* upsert.py:110, embedding_chunk_size or 500
DefaultEmbeddingChunkSize == 500
EmbeddingChunkSize(embedding_chunk_size) ==
    IF embedding_chunk_size = NoneK \/ embedding_chunk_size[1] = 0
    THEN DefaultEmbeddingChunkSize ELSE embedding_chunk_size[1]

\* upsert.py:117-120, RecursiveCharacterTextSplitter(chunk_size=...,
\* chunk_overlap=...): the sizes the constructor refuses with a ValueError.
\* Equal size and overlap pass.
SplitterRejects(chunk_size, chunk_overlap) ==
    chunk_size <= 0 \/ chunk_overlap < 0 \/ chunk_overlap > chunk_size

\* The splitter's separators that can occur in a text over Chars (the two
\* newline separators before them never match).
Separators == <<" ", "">>

HasChar(text, c) == \E i \in 1..Len(text) : text[i] = c

\* upsert.py:121, the splitter cutting a text at a separator, which stays at
\* the head of the piece it begins; with the empty separator every character
\* is a piece.  Empty pieces are dropped.
RECURSIVE CutBefore(_, _, _)
CutBefore(text, separator, piece) ==
    IF text = <<>> THEN <<piece>>
    ELSE IF Head(text) = separator
         THEN <<piece>> \o CutBefore(Tail(text), separator, <<separator>>)
         ELSE CutBefore(Tail(text), separator, Append(piece, Head(text)))

NonEmptyPieces(pieces) == SelectSeq(pieces, LAMBDA s : Len(s) > 0)

_split_text_with_regex(text, separator) ==
    IF separator = ""
    THEN [i \in 1..Len(text) |-> <<text[i]>>]
    ELSE NonEmptyPieces(CutBefore(text, separator, <<>>))

RECURSIVE Concat(_)
Concat(pieces) == IF pieces = <<>> THEN <<>> ELSE Head(pieces) \o Concat(Tail(pieces))

RECURSIVE TotalLen(_)
TotalLen(pieces) == IF pieces = <<>> THEN 0 ELSE Len(Head(pieces)) + TotalLen(Tail(pieces))

\* The splitter's _join_docs: the pieces joined and stripped; a blank result
\* is no chunk.
_join_docs(current_doc) ==
    LET text == strip(Concat(current_doc))
    IN IF text = <<>> THEN <<>> ELSE <<text>>

\* The splitter's _merge_splits, the pieces dropped from the front of the
\* current chunk once it has been emitted: down to the overlap, and further
\* until the next piece fits.
RECURSIVE DropFront(_, _, _, _)
DropFront(current_doc, len, chunk_size, chunk_overlap) ==
    LET total == TotalLen(current_doc)
    IN IF total > chunk_overlap \/ (total + len > chunk_size /\ total > 0)
       THEN DropFront(Tail(current_doc), len, chunk_size, chunk_overlap)
       ELSE current_doc

\* The splitter's _merge_splits: small pieces are packed into chunks of at
\* most chunk_size characters, consecutive chunks sharing up to chunk_overlap.
RECURSIVE MergeLoop(_, _, _, _, _)
MergeLoop(splits, current_doc, docs, chunk_size, chunk_overlap) ==
    IF splits = <<>> THEN docs \o _join_docs(current_doc)
    ELSE LET d == Head(splits)
             full == TotalLen(current_doc) + Len(d) > chunk_size /\ current_doc # <<>>
             emitted == IF full THEN docs \o _join_docs(current_doc) ELSE docs
             kept == IF full THEN DropFront(current_doc, Len(d), chunk_size, chunk_overlap)
                     ELSE current_doc
         IN MergeLoop(Tail(splits), Append(kept, d), emitted, chunk_size, chunk_overlap)

_merge_splits(splits, chunk_size, chunk_overlap) ==
    MergeLoop(splits, <<>>, <<>>, chunk_size, chunk_overlap)

\* The splitter's _split_text: cut at the first separator the text contains,
\* pack the pieces shorter than chunk_size, split the others with the
\* remaining separators (a piece is kept whole when none remains).
RECURSIVE _split_text(_, _, _, _)
RECURSIVE SplitLoop(_, _, _, _, _, _)
SplitLoop(splits, good_splits, final_chunks, new_separators, chunk_size, chunk_overlap) ==
    LET merged == IF good_splits = <<>> THEN <<>>
                  ELSE _merge_splits(good_splits, chunk_size, chunk_overlap)
    IN IF splits = <<>> THEN final_chunks \o merged
       ELSE LET s == Head(splits)
            IN IF Len(s) < chunk_size
               THEN SplitLoop(Tail(splits), Append(good_splits, s), final_chunks,
                              new_separators, chunk_size, chunk_overlap)
               ELSE SplitLoop(Tail(splits), <<>>,
                              final_chunks \o merged \o
                                  (IF new_separators = <<>> THEN <<s>>
                                   ELSE _split_text(s, new_separators, chunk_size, chunk_overlap)),
                              new_separators, chunk_size, chunk_overlap)

_split_text(text, separators, chunk_size, chunk_overlap) ==
    LET found == Head(separators) # "" /\ HasChar(text, Head(separators))
        separator == IF found THEN Head(separators) ELSE ""
        new_separators == IF found THEN Tail(separators) ELSE <<>>
    IN SplitLoop(_split_text_with_regex(text, separator), <<>>, <<>>,
                 new_separators, chunk_size, chunk_overlap)

\* upsert.py:121, text_splitter.split_documents(documents): the chunks of
\* every document, in document order.
RECURSIVE split_documents(_, _, _)
split_documents(documents, chunk_size, chunk_overlap) ==
    IF documents = <<>> THEN <<>>
    ELSE _split_text(Head(documents), Separators, chunk_size, chunk_overlap)
         \o split_documents(Tail(documents), chunk_size, chunk_overlap)

\* upsert.py:106, `not documents`
DocumentsEmpty_never(documents) == FALSE
DocumentsEmpty(documents) == documents = <<>>

\* The errors an upsert ends with: upsert.py:107, the splitter's constructor
\* (upsert.py:117), and a failure of the embedding service or of the index
\* while a batch is embedded or written (upsert.py:126).
EmptyDocumentsError == "Documents list cannot be empty."
SplitterError == "chunk size or overlap refused"
UpstreamError == "embedding or write failed"

\* upsert.py:126-130, add_documents is called without ids, so the store
\* draws one uuid.uuid4() per chunk, in chunk order, before it embeds.
FreshIds_constant(n, issued) == [i \in 1..n |-> issued + 1]
FreshIds(n, issued) == [i \in 1..n |-> issued + i]

\* upsert.py:126-130, the store embeds and writes the chunks in groups of
\* embedding_chunk_size.
NumGroups(n, size) == (n + size - 1) \div size

\* What a call of upsert_documents did: err is None when it returned;
\* assigned are the identifiers drawn for the chunks, written how many of the
\* chunks reached the index, asked_store whether get_vector_store was called.
UpsertOutcome(err, chunks, assigned, written, asked_store) ==
    [err |-> err, chunks |-> chunks, assigned |-> assigned, written |-> written,
     asked_store |-> asked_store, returned |-> err = None,
     ids |-> IF err = None THEN assigned ELSE <<>>]

NoOutcome == UpsertOutcome(None, <<>>, <<>>, 0, FALSE)

\* upsert.py:77-133, upsert_documents(documents, chunk_size=..., chunk_overlap=...,
\* embedding_chunk_size=...) when uuid4 has handed out `issued` identifiers and
\* the group numbered fail_at, if there is one, fails.
upsert_documents(documents, chunk_size, chunk_overlap, embedding_chunk_size, fail_at, issued) ==
    IF DocumentsEmpty(documents)
    THEN UpsertOutcome(EmptyDocumentsError, <<>>, <<>>, 0, FALSE)
    ELSE IF SplitterRejects(chunk_size, chunk_overlap)
    THEN UpsertOutcome(SplitterError, <<>>, <<>>, 0, FALSE)
    ELSE LET chunks == split_documents(documents, chunk_size, chunk_overlap)
             size == EmbeddingChunkSize(embedding_chunk_size)
             failed == fail_at \in 1..NumGroups(Len(chunks), size)
         IN UpsertOutcome(IF failed THEN UpstreamError ELSE None,
                          chunks, FreshIds(Len(chunks), issued),
                          IF failed THEN (fail_at - 1) * size ELSE Len(chunks),
                          TRUE)

\* The groups a call with these arguments embeds and writes.
GroupsOf(documents, chunk_size, chunk_overlap, embedding_chunk_size) ==
    IF DocumentsEmpty(documents) \/ SplitterRejects(chunk_size, chunk_overlap) THEN 0
    ELSE NumGroups(Len(split_documents(documents, chunk_size, chunk_overlap)),
                   EmbeddingChunkSize(embedding_chunk_size))

\* The index writes a record under its identifier: a record with the same
\* identifier in the same namespace is replaced.
IndexUpsert(records, new) ==
    {r \in records : \A n \in new : ~(n.id = r.id /\ n.ns = r.ns)} \cup new

\* What a call of upsert_documents leaves behind: the caches
\* get_vector_store filled, the identifiers drawn, and the records written
\* into the namespace of the store it was handed.
UpsertEffect(out) ==
    /\ GetVectorStoreBuilds(out.asked_store, UpsertStoreNamespace(None))
    /\ pinecone_records' =
           IndexUpsert(pinecone_records,
                       {[id |-> out.assigned[i], text |-> out.chunks[i],
                         ns |-> _vector_store'.ns] : i \in 1..out.written})
    /\ remote' = IF out.written > 0 THEN remote \cup {_vector_store'.ns} ELSE remote
    /\ uuid_issued' = uuid_issued + Len(out.assigned)
    /\ UNCHANGED <<st_calls, after_reset, overlap, sthr>>

\* The state of the upsert_documents call a behaviour makes: attempt counts
\* the calls made with these arguments, first is the outcome of the first.
IdleUp ==
    [pc |-> "idle", documents |-> <<>>, chunk_size |-> 0, chunk_overlap |-> 0,
     embedding_chunk_size |-> NoneK, attempt |-> 0, out |-> NoOutcome, first |-> NoOutcome]

\* No upload request in progress.
IdleUpload ==
    [pc |-> "idle", files |-> <<>>, next |-> 0, status |-> 0, detail |-> None,
     loaded |-> {}, upserted |-> {}, file_results |-> <<>>, chunk_ids |-> <<>>]

IngestInitVars ==
    /\ up = IdleUp
    /\ pinecone_records = {}
    /\ uuid_issued = 0
    /\ upload = IdleUpload
    /\ tmp_files = {}

\* One call of upsert_documents by one caller.
RunUpsert(call, fail_at) ==
    LET out == upsert_documents(call.documents, call.chunk_size, call.chunk_overlap,
                                call.embedding_chunk_size, fail_at, uuid_issued)
    IN /\ up' = [call EXCEPT !.pc = IF out.err = None THEN "done" ELSE "failed",
                             !.attempt = @ + 1,
                             !.out = out,
                             !.first = IF call.attempt = 0 THEN out ELSE @]
       /\ UpsertEffect(out)
       /\ UNCHANGED <<upload, tmp_files>>
       /\ UNCHANGED <<job_vars, rr_vars, retrieval_vars, crew_vars>>

\* upsert.py:77-133, a caller calls upsert_documents.
UpsertDocumentsCall ==
    /\ up.pc = "idle"
    /\ upload.pc = "idle"
    /\ \E documents \in DocumentLists, chunk_size \in ChunkSizes,
          chunk_overlap \in ChunkOverlaps, embedding_chunk_size \in EmbeddingChunkSizes :
           \E fail_at \in 0..GroupsOf(documents, chunk_size, chunk_overlap, embedding_chunk_size) :
               RunUpsert([IdleUp EXCEPT !.documents = documents, !.chunk_size = chunk_size,
                                        !.chunk_overlap = chunk_overlap,
                                        !.embedding_chunk_size = embedding_chunk_size],
                         fail_at)

\* After a failed batch the caller calls upsert_documents again with the
\* same arguments.
UpsertRetryCall ==
    /\ up.pc = "failed"
    /\ up.out.err = UpstreamError
    /\ up.attempt = 1
    /\ \E fail_at \in 0..GroupsOf(up.documents, up.chunk_size, up.chunk_overlap,
                                  up.embedding_chunk_size) :
           RunUpsert(up, fail_at)

\* ------------------------------------------------------------ file upload

\* upsert.py:16-17
DEFAULT_CHUNK_SIZE == 512
DEFAULT_CHUNK_OVERLAP == 50

\* load.py:16-18
SUPPORTED_EXTENSIONS == {".pdf", ".csv"}

\* The names uploads arrive under; None is a part without a file name.
Filenames == {"a.pdf", "b.PDF", "c.csv", "d.txt", None}

\* main.py:96, Path(upload.filename or "").suffix.lower()
SuffixLower(filename) ==
    CASE filename = "a.pdf" -> ".pdf"
      [] filename = "b.PDF" -> ".pdf"
      [] filename = "c.csv" -> ".csv"
      [] filename = "d.txt" -> ".txt"
      [] OTHER -> ""

\* A request carries no, one or two files.
UploadLists == {<<>>} \cup {<<f>> : f \in Filenames} \cup {<<f, g>> : f, g \in Filenames}

\* main.py:95-101, the loop that looks at every file's extension before any
\* file is processed.
AllSupported_unchecked(files) == TRUE
AllSupported(files) ==
    \A i \in 1..Len(files) : SuffixLower(files[i]) \in SUPPORTED_EXTENSIONS

\* What load_documents does with a temporary copy: it raises one of the two
\* errors the handler turns into 400, or another error, or returns documents.
LoadErrors == {"ValueError", "FileNotFoundError", "OtherError"}

\* The request ends with an HTTP status.
Respond(req, status, detail) ==
    [req EXCEPT !.pc = "responded", !.status = status, !.detail = detail]

\* main.py:85-104, a request arrives: an empty list and an unsupported
\* extension are answered with 400 before the first file is read.
UploadBegin ==
    /\ upload.pc = "idle"
    /\ up.pc = "idle"
    /\ \E files \in UploadLists :
           LET req == [IdleUpload EXCEPT !.files = files]
           IN upload' = IF files = <<>>
                        THEN Respond(req, 400, "At least one file is required")
                        ELSE IF ~AllSupported(files)
                        THEN Respond(req, 400, "Unsupported file type")
                        ELSE [req EXCEPT !.pc = "temp", !.next = 1]
    /\ UNCHANGED <<up, pinecone_records, uuid_issued, tmp_files>>
    /\ UNCHANGED <<job_vars, rr_vars, store_vars, retrieval_vars, crew_vars>>

\* main.py:105-110, the next file's temporary copy is created and the upload
\* is read into it.  When reading or writing fails the request ends with that
\* error, outside the try block that deletes the copy.
UploadWriteTemp ==
    /\ upload.pc = "temp"
    /\ tmp_files' = tmp_files \cup {upload.next}
    /\ \E read_ok \in BOOLEAN :
           upload' = IF read_ok THEN [upload EXCEPT !.pc = "process"]
                     ELSE Respond(upload, 500, "read or write failed")
    /\ UNCHANGED <<up, pinecone_records, uuid_issued>>
    /\ UNCHANGED <<job_vars, rr_vars, store_vars, retrieval_vars, crew_vars>>

\* main.py:112-137 for one file whose documents were loaded: nothing to
\* upsert for an empty list, otherwise upsert_documents(docs).
FileDone(req, i, docs, out) ==
    LET called == docs # <<>>
        failed == called /\ out.err # None
        after == [req EXCEPT !.loaded = @ \cup {i},
                             !.upserted = IF called THEN @ \cup {i} ELSE @,
                             !.chunk_ids = IF failed THEN @ ELSE @ \o out.ids,
                             !.file_results =
                                 IF failed THEN @
                                 ELSE Append(@, [filename |-> req.files[i],
                                                 documents |-> Len(docs),
                                                 chunks |-> Len(out.ids)])]
    IN IF failed THEN Respond(after, 500, out.err)
       ELSE IF i = Len(req.files) THEN Respond(after, 200, None)
       ELSE [after EXCEPT !.pc = "temp", !.next = i + 1]

\* main.py:112-131, load_documents raised: ValueError and FileNotFoundError
\* become 400, anything else is left to the framework.
FileFailed(req, i, err) ==
    Respond([req EXCEPT !.loaded = @ \cup {i}],
            IF err \in {"ValueError", "FileNotFoundError"} THEN 400 ELSE 500, err)

\* main.py:112-137, the file is loaded and upserted; on every way out of the
\* try block the finally clause unlinks the temporary copy.  load_documents
\* itself refuses an extension it does not support (load.py:66-70).
UploadProcess ==
    /\ upload.pc = "process"
    /\ tmp_files' = tmp_files \ {upload.next}
    /\ LET i == upload.next
       IN IF SuffixLower(upload.files[i]) \notin SUPPORTED_EXTENSIONS
          THEN /\ upload' = FileFailed(upload, i, "ValueError")
               /\ UpsertEffect(NoOutcome)
          ELSE \/ \E err \in LoadErrors :
                      /\ upload' = FileFailed(upload, i, err)
                      /\ UpsertEffect(NoOutcome)
               \/ \E docs \in DocumentLists :
                      \E fail_at \in 0..GroupsOf(docs, DEFAULT_CHUNK_SIZE,
                                                 DEFAULT_CHUNK_OVERLAP, NoneK) :
                          LET out == IF docs = <<>> THEN NoOutcome
                                     ELSE upsert_documents(docs, DEFAULT_CHUNK_SIZE,
                                                           DEFAULT_CHUNK_OVERLAP, NoneK,
                                                           fail_at, uuid_issued)
                          IN /\ upload' = FileDone(upload, i, docs, out)
                             /\ UpsertEffect(out)
    /\ UNCHANGED up
    /\ UNCHANGED <<job_vars, rr_vars, retrieval_vars, crew_vars>>

IngestNext ==
    \/ UpsertDocumentsCall
    \/ UpsertRetryCall
    \/ UploadBegin
    \/ UploadWriteTemp
    \/ UploadProcess

\* ------------------------------------------------------- crew and its tool

TaskNames == {"research", "critique", "synthesis"}

\* crew.py:65-73, the tasks in the order the crew is given them.
CrewTasks_swapped == <<"research", "synthesis", "critique">>
CrewTasks == <<"research", "critique", "synthesis">>

\* tasks.py:33-35, 71, 106: the context each task is created with.
TaskContext ==
    [research |-> <<>>, critique |-> <<"research">>, synthesis |-> <<"research", "critique">>]

\* What a task hands on when it completes.
TaskOutputs == {"a", "b"}

\* input: what a task was handed for each task of its context when it
\* started; started: the tasks in the order they started.
IdleCrew ==
    [pc |-> "idle", tasks |-> <<>>, process |-> None,
     context |-> [t \in TaskNames |-> <<>>], next |-> 0, running |-> {},
     output |-> [t \in TaskNames |-> None], input |-> [t \in TaskNames |-> <<>>],
     started |-> <<>>]

\* What RetrievalTool._run handed back to the agent.
ToolResult(kind, text, items) == [kind |-> kind, text |-> text, items |-> items]
NoToolResult == ToolResult("not called", None, <<>>)

CrewInitVars ==
    /\ crew = IdleCrew
    /\ tool_out = NoToolResult

\* crew.py:65-85, StratAgentCrew.run creates the three tasks and the crew.
CrewRun ==
    /\ crew.pc = "idle"
    /\ crew' = [IdleCrew EXCEPT !.pc = "built", !.tasks = CrewTasks,
                                !.process = "sequential", !.context = TaskContext]
    /\ UNCHANGED tool_out
    /\ UNCHANGED <<job_vars, rr_vars, store_vars, retrieval_vars, ingest_vars>>

\* crew.py:87, crew.kickoff(inputs=...)
CrewKickoff ==
    /\ crew.pc = "built"
    /\ crew' = [crew EXCEPT !.pc = "running", !.next = 1]
    /\ UNCHANGED tool_out
    /\ UNCHANGED <<job_vars, rr_vars, store_vars, retrieval_vars, ingest_vars>>

\* crew.py:74, 87: under the sequential process the next task of the list
\* starts when no task is running, and is handed the outputs of the tasks of
\* its context.
TaskStart ==
    /\ crew.pc = "running"
    /\ crew.process = "sequential" => crew.running = {}
    /\ crew.next <= Len(crew.tasks)
    /\ crew.tasks[crew.next] \notin crew.running
    /\ LET t == crew.tasks[crew.next]
           c == crew.context[t]
       IN crew' = [crew EXCEPT !.running = @ \cup {t},
                               !.started = Append(@, t),
                               !.next = @ + 1,
                               !.input[t] = [i \in 1..Len(c) |-> crew.output[c[i]]]]
    /\ UNCHANGED tool_out
    /\ UNCHANGED <<job_vars, rr_vars, store_vars, retrieval_vars, ingest_vars>>

\* crew.py:87, a running task completes with its output; kickoff returns
\* when the last one has.
TaskFinish ==
    /\ crew.pc = "running"
    /\ \E t \in crew.running, o \in TaskOutputs :
           crew' = [crew EXCEPT !.running = @ \ {t},
                                !.output[t] = o,
                                !.pc = IF crew.next > Len(crew.tasks) /\ crew.running = {t}
                                       THEN "done" ELSE @]
    /\ UNCHANGED tool_out
    /\ UNCHANGED <<job_vars, rr_vars, store_vars, retrieval_vars, ingest_vars>>

\* crew.py:87, a running task raises and kickoff raises with it.
TaskRaise ==
    /\ crew.pc = "running"
    /\ \E t \in crew.running :
           crew' = [crew EXCEPT !.running = {}, !.pc = "raised"]
    /\ UNCHANGED tool_out
    /\ UNCHANGED <<job_vars, rr_vars, store_vars, retrieval_vars, ingest_vars>>

\* retrieval_tool.py:40, doc.metadata.get("source", "Unknown"); document 1
\* carries no source.
DocSource(doc) == IF doc = 1 THEN "Unknown" ELSE "filing"

\* retrieval_tool.py:38-43, the results in the order returned, numbered
\* from 1, each with its source and its text.
FormatResults(docs) ==
    [i \in 1..Len(docs) |-> [number |-> i, source |-> DocSource(docs[i]), content |-> docs[i]]]

\* retrieval_tool.py:32, `except Exception`
Catches_query_errors_only(err) == err = QueryError
Catches(err) == TRUE

\* retrieval_tool.py:23-43, RetrievalTool._run given what retrieve_with_rerank did.
_run(out) ==
    IF out.err # None
    THEN IF Catches(out.err) THEN ToolResult("error", out.err, <<>>)
         ELSE ToolResult("raised", out.err, <<>>)
    ELSE IF out.docs = <<>>
    THEN ToolResult("empty", "No relevant documents found", <<>>)
    ELSE ToolResult("list", None, FormatResults(out.docs))

\* retrieval_tool.py:23-43, the research agent calls the tool while its task
\* runs: retrieve_with_rerank.invoke with the two k of the settings and no
\* namespace.
RetrievalToolRun ==
    /\ crew.pc = "running"
    /\ "research" \in crew.running
    /\ rq.pc = "idle"
    /\ \E query \in Queries, hits \in IndexResponses :
           \E mode \in IndexModes(settings.retrieval_top_k), rscore \in ScoreFns(DocsOf(hits)) :
               LET out == retrieve_with_rerank(query, <<settings.retrieval_top_k>>,
                                               <<settings.rerank_top_k>>, hits, mode, rscore)
               IN /\ CallEffect([IdleRq EXCEPT !.op = "tool", !.query = query,
                                               !.k = <<settings.retrieval_top_k>>,
                                               !.rerank_k = <<settings.rerank_top_k>>,
                                               !.hits = hits, !.mode = mode, !.rscore = rscore],
                                out)
                  /\ tool_out' = _run(out)
    /\ UNCHANGED crew

CrewNext ==
    \/ CrewRun
    \/ CrewKickoff
    \/ TaskStart
    \/ TaskFinish
    \/ TaskRaise
    \/ RetrievalToolRun

\* ----------------------------------------------------------- specifications
\* Every specification starts all parts in their initial state; the index may
\* or may not exist at the service yet.  Outside the retrieval pipeline no
\* retrieval call is made and the settings are the defaults.
RetrievalIdle ==
    RetrievalInitVars /\ settings = DefaultSettings /\ IngestInitVars /\ CrewInitVars

JobInit ==
    JobInitVars /\ RerankInitVars /\ StoreInitVars /\ RetrievalIdle
    /\ index_exists = TRUE /\ overlap = FALSE

RerankInit ==
    JobInitVars /\ RerankInitVars /\ StoreInitVars /\ RetrievalIdle
    /\ index_exists = TRUE /\ overlap = TRUE

\* Calls made one after another (one caller, or callers that take turns).
StoreSeqInit ==
    JobInitVars /\ RerankInitVars /\ StoreInitVars /\ RetrievalIdle /\ overlap = FALSE

\* Calls of different threads overlap freely.
StoreInit ==
    JobInitVars /\ RerankInitVars /\ StoreInitVars /\ RetrievalIdle /\ overlap = TRUE

\* One retrieval call, under any of the settings, in a fresh process.
RetrievalInit ==
    JobInitVars /\ RerankInitVars /\ StoreInitVars /\ RetrievalInitVars /\ IngestInitVars
    /\ CrewInitVars
    /\ index_exists = TRUE /\ overlap = FALSE

\* The job runner.
Spec == JobInit /\ [][JobNext]_vars

\* The reranker cache under concurrent callers.
RerankSpec == RerankInit /\ [][RerankNext]_vars

\* The ingestion caches under sequential calls.
StoreSeqSpec == StoreSeqInit /\ [][StoreNext]_vars

\* All four cached accessors and the two resets, called one after another.
AccessorSpec == StoreSeqInit /\ [][AccessorNext]_vars

\* The retrieval pipeline.
RetrievalSpec == RetrievalInit /\ [][RetrievalNext]_vars

\* The ingestion caches under concurrent callers.
StoreSpec == StoreInit /\ [][StoreNext]_vars

\* Ingestion: one upsert_documents call and its retry, or one upload request.
IngestSpec == StoreSeqInit /\ [][IngestNext]_vars

\* One run of the crew, whose research agent may call the retrieval tool.
CrewSpec == RetrievalInit /\ [][CrewNext]_vars

\* ------------------------------------------------------ job runner: claims

\* The status changes a strict three-state machine allows.
StrictTransitions ==
    {<<"pending", "running">>, <<"running", "completed">>, <<"running", "failed">>}

\* C1: the statuses written to job_store[job_id] run pending, running, then
\* exactly one of completed or failed, and a completed or failed status is
\* never written again, whatever the pipeline and the serialisation do.
C1_StrictStateMachine ==
    [][\A j \in DOMAIN job_store :
          /\ j \in DOMAIN job_store'
          /\ \/ job_store'[j].status = job_store[j].status
             \/ <<job_store[j].status, job_store'[j].status>> \in StrictTransitions]_vars

\* C2: what a poll returns is consistent: status completed comes with a
\* result, status failed comes with an error, at every interleaving with the
\* writer.
C2_PollConsistent ==
    \A p \in Pollers :
        poll[p].pc \in {"respond", "responded"} =>
            /\ poll[p].status = "completed" => poll[p].result # None
            /\ poll[p].status = "failed" => poll[p].error # None

\* C3: run_analysis never raises to its scheduler, and a run that caught an
\* exception ends with status failed and error equal to the exception's string.
C3_ExceptionsRecorded ==
    \A j \in JobIds :
        /\ rpc[j] # "raised"
        /\ (rpc[j] = "done" /\ exc[j] # None) =>
               /\ job_store[j].status = "failed"
               /\ job_store[j].error = exc[j]

\* C3 witness: a pipeline raised and its job has ended as failed.
C3_Witness ==
    \E j \in JobIds :
        /\ rpc[j] = "done"
        /\ exc[j] = "crew_error"
        /\ job_store[j].error = "crew_error"

\* C4: analyze stores the pending record before it schedules the task and
\* returns the id while the task has not started; run_analysis finds its
\* record; records are never removed, so a poll of a returned id is never 404.
C4_RecordBeforeTask ==
    /\ [](/\ returned \subseteq DOMAIN job_store
          /\ \A j \in JobIds : scheduled[j] > 0 => j \in DOMAIN job_store
          /\ \A j \in JobIds : rpc[j] # "raised")
    /\ [][/\ DOMAIN job_store \subseteq DOMAIN job_store'
          /\ (analyze_id # NoJob /\ analyze_id' = NoJob) =>
                 /\ analyze_id \in DOMAIN job_store
                 /\ job_store[analyze_id] = PendingRecord
                 /\ rpc[analyze_id] = "none"
          /\ \A p \in Pollers :
                 (poll[p].pc = "check" /\ poll[p].job_id \in returned) =>
                     poll'[p].pc # "raise_404"]_vars

\* C4 witness: a poll of a returned id was answered with status pending, its
\* task scheduled and not yet started.
C4_Witness ==
    \E p \in Pollers :
        /\ poll[p].pc = "responded"
        /\ poll[p].job_id \in returned
        /\ poll[p].status = "pending"
        /\ rpc[poll[p].job_id] = "scheduled"

\* C5: a submission never touches an existing record, exactly one task is
\* scheduled per identifier, and a record changes only in a step of its own
\* run_analysis, whatever the other jobs are doing.
C5_OneWriterPerJob ==
    /\ [](\A j \in JobIds :
              /\ scheduled[j] <= 1
              /\ (j \in DOMAIN job_store /\ j # analyze_id) => scheduled[j] = 1)
    /\ [][\A j \in DOMAIN job_store :
              /\ j \in DOMAIN job_store'
              /\ job_store'[j] # job_store[j] =>
                     /\ rpc'[j] # rpc[j]
                     /\ rpc[j] # "none"
                     /\ \A k \in DOMAIN job_store \ {j} : rpc'[k] = rpc[k]]_vars

\* C5 witness: one job has ended as failed while another job's pipeline is
\* still running with its record untouched.
C5_Witness ==
    \E j, k \in DOMAIN job_store :
        /\ j # k
        /\ rpc[j] = "done"
        /\ job_store[j].status = "failed"
        /\ rpc[k] = "pipeline"
        /\ job_store[k] = [PendingRecord EXCEPT !.status = "running"]

\* Nothing but pipelines in worker threads is in progress.
OnlyPipelinesRunning ==
    /\ analyze_id = NoJob
    /\ \E j \in JobIds : rpc[j] = "pipeline"
    /\ \A j \in JobIds : rpc[j] \in {"none", "scheduled", "pipeline", "done"}

\* C6: while pipelines are executing, no step of a get_job_status call has to
\* wait for one of them to finish.
C6_PollNotBlocked ==
    \A p \in Pollers :
        (OnlyPipelinesRunning /\ poll[p].pc \notin {"responded", "responded_404"}) =>
            ENABLED PollStep(p)

\* C6 witness: a poll returned status running for a job whose pipeline is
\* still executing.
C6_Witness ==
    \E p \in Pollers :
        /\ poll[p].pc = "responded"
        /\ poll[p].status = "running"
        /\ rpc[poll[p].job_id] = "pipeline"

\* ---------------------------------------------------- reranker cache: claims

\* C7: with no reset, concurrent first callers of _get_reranker construct the
\* model at most once and every caller receives that one instance.
C7_ConstructedOnce ==
    rr_resets = 0 =>
        /\ reranker_built <= 1
        /\ \A t \in RerankThreads :
               (rthr[t].pc = "done" /\ rthr[t].op = "get") =>
                   (rthr[t].got = 1 /\ reranker_built = 1)

\* C7 witness: a caller that saw the empty cache waited for the lock while
\* another caller constructed the model, and now makes the second test.
C7_Witness ==
    \E t, u \in RerankThreads :
        /\ rr_resets = 0
        /\ rthr[t].pc = "done" /\ rthr[t].got = 1
        /\ rthr[u].pc = "check2"
        /\ _reranker = 1

\* ------------------------------------------------- ingestion caches: claims

\* C8: every similarity search runs against the namespace passed to its call
\* (None: the index default), so it returns no record of another namespace.
C8_SearchInCallNamespace ==
    \A t \in StoreThreads :
        (sthr[t].pc = "done" /\ sthr[t].op = "search") =>
            /\ sthr[t].used_ns = sthr[t].ns
            /\ sthr[t].hits \subseteq {sthr[t].ns}

\* C9: upsert_documents(documents, namespace=N) writes its chunks into
\* namespace N, whatever earlier calls used; None is the index default.
C9_UpsertInCallNamespace ==
    \A t \in StoreThreads :
        (sthr[t].pc = "done" /\ sthr[t].op = "upsert") =>
            sthr[t].used_ns = sthr[t].ns

\* C10: the call that follows reset_upsert_cache constructs the embedding
\* client, the index connection and the vector store anew, once each; a reset
\* with nothing cached leaves the caches empty.
C10_ResetForcesRecreation ==
    /\ \A t \in StoreThreads :
           (sthr[t].pc = "done" /\ sthr[t].op \in {"search", "upsert"} /\ sthr[t].fresh) =>
               sthr[t].built = {"embedding", "index", "store"}
    /\ (after_reset /\ StoreQuiet /\ store_built = 0) =>
           (_embedding_model = NoInstance /\ _pinecone_index = NoInstance
            /\ _vector_store = NoStore)

\* ------------------------------------------------- cached accessors: claims

\* One step of a cache slot (id: the instance it holds, n: how many instances
\* have been constructed): it changes only when a reset clears it or when an
\* accessor that found it empty stores the one instance it constructed.
SlotStep(id, id2, n, n2) ==
    (id2 # id \/ n2 # n) =>
        \/ (id2 = NoInstance /\ n2 = n)
        \/ (id = NoInstance /\ n2 = n + 1 /\ id2 = n2)

\* C11: in calls made one after another, each of the four cached accessors
\* constructs its client only when the cache is empty, so calls with no reset
\* between them construct it once, and every call returns the cached instance.
C11_CachedAccessors ==
    [][/\ SlotStep(_embedding_model, _embedding_model', emb_built, emb_built')
       /\ SlotStep(_pinecone_index, _pinecone_index', idx_built, idx_built')
       /\ SlotStep(_vector_store.id, _vector_store'.id, store_built, store_built')
       /\ SlotStep(_reranker, _reranker', reranker_built, reranker_built')
       /\ \A t \in StoreThreads :
              /\ (sthr[t].pc = "emb_return" /\ sthr'[t].pc # "emb_return") =>
                     (sthr'[t].model = _embedding_model /\ _embedding_model # NoInstance)
              /\ (sthr[t].pc = "idx_return" /\ sthr'[t].pc # "idx_return") =>
                     (sthr'[t].index = _pinecone_index /\ _pinecone_index # NoInstance)
              /\ (sthr[t].pc = "gvs_return" /\ sthr'[t].pc # "gvs_return") =>
                     (sthr'[t].store = _vector_store /\ _vector_store # NoStore)
       /\ \A t \in RerankThreads :
              (rthr[t].pc = "return" /\ rthr'[t].pc # "return") =>
                  (rthr'[t].got = _reranker /\ _reranker # NoInstance)]_vars

\* C11 witness: two get_vector_store calls, made one after the other with
\* different namespaces, returned the one store that the first constructed.
C11_Witness ==
    \E t, u \in StoreThreads :
        /\ sthr[t].pc = "done" /\ sthr[t].op = "get_store"
        /\ sthr[u].pc = "done" /\ sthr[u].op = "get_store"
        /\ sthr[t].ns # sthr[u].ns
        /\ sthr[t].store = sthr[u].store
        /\ sthr[t].store # NoStore
        /\ sthr[t].built = {"embedding", "index", "store"}
        /\ sthr[u].built = {}
        /\ store_built = 1

\* ------------------------------------------------ retrieval pipeline: claims

\* A completed call of the named function.
Called(op) == rq.pc = "done" /\ rq.op = op

\* The query is empty or holds nothing but blanks.
BlankQuery == \A i \in 1..Len(rq.query) : rq.query[i] = " "

\* The k of the index request: the caller's, or the configured default.
EffectiveK == IF rq.k = NoneK THEN settings.retrieval_top_k ELSE rq.k[1]

\* The k of the rerank: the caller's, or the configured default.
EffectiveRerankK == IF rq.rerank_k = NoneK THEN settings.rerank_top_k ELSE rq.rerank_k[1]

\* The hits the index returns for the request, and those at or above the
\* retriever threshold, as documents in the index's order.
Returned == SubSeq(rq.hits, 1, Max(Min(EffectiveK, Len(rq.hits)), 0))
Survivors ==
    LET kept == SelectSeq(Returned, LAMBDA h : h.score >= settings.retriever_threshold)
    IN [i \in 1..Len(kept) |-> kept[i].doc]

\* Retriever followed by rerank, on the arguments and answers of the call.
RetrieverThenRerank ==
    LET first == retriever(rq.query, rq.k, rq.hits, rq.mode)
    IN IF first.err # None THEN first
       ELSE rerank(rq.query, first.docs, rq.rerank_k, rq.rscore)

\* C12: retrieve_with_rerank ends as retriever followed by rerank does on the
\* same arguments: the same error raised or the same list returned.
C12_PipelineIsComposition ==
    Called("retrieve_with_rerank") =>
        /\ rq.out.err = RetrieverThenRerank.err
        /\ rq.out.docs = RetrieverThenRerank.docs

\* C13: when the vector search of retrieve_with_rerank yields no candidate
\* (no hit, or every hit below the retriever threshold), the call returns []
\* and the reranker is neither constructed nor called.
C13_NoCandidatesNoReranker ==
    (/\ Called("retrieve_with_rerank")
     /\ ~BlankQuery
     /\ rq.mode # "error"
     /\ \A i \in 1..Len(Returned) : Returned[i].score < settings.retriever_threshold) =>
        /\ rq.out.err = None
        /\ rq.out.docs = <<>>
        /\ ~rq.out.reranked
        /\ reranker_built = 0
        /\ _reranker = NoInstance

\* C13 witness: the index answered with hits, all below the threshold, and
\* the pipeline returned [] with no reranker constructed.
C13_Witness ==
    /\ Called("retrieve_with_rerank")
    /\ Len(Returned) = MaxDocs
    /\ \A i \in 1..Len(Returned) : Returned[i].score < settings.retriever_threshold
    /\ rq.out.asked_k = <<EffectiveK>>
    /\ rq.out.err = None
    /\ rq.out.docs = <<>>
    /\ reranker_built = 0

\* C14: rerank(query, []) returns [] for every query (an empty one too) and
\* every k, raising nothing and neither constructing nor calling the reranker.
C14_EmptyDocumentsFirst ==
    (Called("rerank") /\ rq.documents = <<>>) =>
        /\ rq.out.err = None
        /\ rq.out.docs = <<>>
        /\ ~rq.out.reranked
        /\ reranker_built = 0
        /\ _reranker = NoInstance

\* C14 witness: rerank was called with a blank query and no document and
\* returned [].
C14_Witness ==
    /\ Called("rerank")
    /\ rq.documents = <<>>
    /\ rq.query = <<" ">>
    /\ rq.out.err = None
    /\ rq.out.docs = <<>>

\* The position of document d in the list handed to rerank.
InputPos(d) == CHOOSE i \in 1..Len(rq.documents) : rq.documents[i] = d

\* C15: rerank returns documents by descending score, documents of equal
\* score in their input order; scores [0.5, 0.5, 0.9] for [A, B, C] give
\* [C, A, B], and scores [0.3, 0.9, 0.5] with k=2 give the 0.9 then the 0.5.
C15_DescendingStable ==
    (Called("rerank") /\ rq.out.err = None) =>
        /\ \A i, j \in 1..Len(rq.out.docs) :
               i < j =>
                   \/ rq.rscore[rq.out.docs[i]] > rq.rscore[rq.out.docs[j]]
                   \/ /\ rq.rscore[rq.out.docs[i]] = rq.rscore[rq.out.docs[j]]
                      /\ InputPos(rq.out.docs[i]) < InputPos(rq.out.docs[j])
        /\ (/\ settings = DefaultSettings
            /\ rq.documents = <<1, 2, 3>>
            /\ ~BlankQuery
            /\ rq.rscore[1] = 50000 /\ rq.rscore[2] = 50000 /\ rq.rscore[3] = 90000
            /\ rq.rerank_k = NoneK) => rq.out.docs = <<3, 1, 2>>
        /\ (/\ settings = DefaultSettings
            /\ rq.documents = <<1, 2, 3>>
            /\ ~BlankQuery
            /\ rq.rscore[1] = 30000 /\ rq.rscore[2] = 90000 /\ rq.rscore[3] = 50000
            /\ rq.rerank_k = <<2>>) => rq.out.docs = <<2, 3>>

\* C15 witness: the tie of the first two of three documents was kept in
\* input order behind the best one.
C15_Witness ==
    /\ Called("rerank")
    /\ rq.documents = <<1, 2, 3>>
    /\ rq.rscore[1] = 50000 /\ rq.rscore[2] = 50000 /\ rq.rscore[3] = 90000
    /\ rq.out.docs = <<3, 1, 2>>

\* C16: for a non-empty candidate list and any integer k, rerank returns at
\* most min(k, len(candidates)) documents (none when that is not positive) and
\* raises nothing on account of k.
C16_AtMostMinK ==
    (Called("rerank") /\ rq.documents # <<>> /\ ~BlankQuery) =>
        /\ rq.out.err = None
        /\ Len(rq.out.docs) <= Max(Min(EffectiveRerankK, Len(rq.documents)), 0)

\* The rank of document d among the candidates: one more than the number of
\* candidates that score higher, or score the same and come earlier.
RankOf(d) ==
    1 + Cardinality({e \in Members(rq.documents) :
                        \/ rq.rscore[e] > rq.rscore[d]
                        \/ rq.rscore[e] = rq.rscore[d] /\ InputPos(e) < InputPos(d)})

\* The m best candidates with those at or below the reranker threshold removed.
TopAboveThreshold(m) ==
    {d \in Members(rq.documents) :
        RankOf(d) <= m /\ rq.rscore[d] > settings.reranker_threshold}

\* C17: rerank drops every candidate at or below reranker_threshold from the
\* top min(k, n) it selected and takes no lower-ranked candidate in its place,
\* so fewer than k may be returned; with the threshold at 0 every selected
\* candidate of positive score is returned.
C17_ThresholdAfterSelection ==
    (Called("rerank") /\ rq.documents # <<>> /\ rq.out.err = None) =>
        /\ \A i \in 1..Len(rq.out.docs) :
               rq.rscore[rq.out.docs[i]] > settings.reranker_threshold
        /\ \E m \in 0..Len(rq.documents) :
               /\ Members(rq.out.docs) = TopAboveThreshold(m)
               /\ EffectiveRerankK >= 0 => m = Min(EffectiveRerankK, Len(rq.documents))
        /\ (settings.reranker_threshold = 0 /\ EffectiveRerankK >= 0) =>
               Len(rq.out.docs) = Min(EffectiveRerankK, Len(rq.documents))

\* C17 witness: of the two best of three candidates one was at the threshold;
\* it was dropped and only the other returned.
C17_Witness ==
    /\ Called("rerank")
    /\ Len(rq.documents) = MaxDocs
    /\ rq.rerank_k = <<2>>
    /\ settings.reranker_threshold = 50000
    /\ Len(rq.out.docs) = 1
    /\ \E d \in Members(rq.documents) :
           RankOf(d) = 2 /\ rq.rscore[d] = settings.reranker_threshold

\* C18: retriever asks the index for exactly k neighbours (the caller's k, or
\* settings.retrieval_top_k) and returns the hits at or above
\* retriever_threshold, in the index's order.
C18_ThresholdedIndexOrder ==
    (Called("retriever") /\ rq.out.err = None) =>
        /\ rq.out.asked_k = <<EffectiveK>>
        /\ rq.out.docs = Survivors

\* C18 witness: asked for two neighbours of an index holding more, the
\* retriever kept the first hit and dropped the second, below the threshold.
C18_Witness ==
    /\ Called("retriever")
    /\ rq.k = <<2>>
    /\ Len(rq.hits) = MaxDocs
    /\ rq.out.asked_k = <<2>>
    /\ Len(rq.out.docs) = 1
    /\ rq.out.docs = <<rq.hits[1].doc>>

\* C19: a blank query makes retriever, rerank (given candidates) and
\* retrieve_with_rerank raise "Query cannot be empty" with the index not
\* queried and the reranker neither constructed nor called.
C19_BlankQueryRejectedFirst ==
    (/\ rq.pc = "done"
     /\ BlankQuery
     /\ rq.op = "rerank" => rq.documents # <<>>) =>
        /\ rq.out.err = QueryError
        /\ rq.out.asked_k = <<>>
        /\ ~rq.out.reranked
        /\ reranker_built = 0
        /\ store_built = 0

\* C19 witness: retrieve_with_rerank was called with a query of one blank and
\* raised the error.
C19_Witness ==
    /\ Called("retrieve_with_rerank")
    /\ rq.query = <<" ">>
    /\ rq.out.err = QueryError

\* C20: retriever raises "k must be between 1 and 1000", without querying the
\* index, whenever the effective k is below 1 or above 1000 (a blank query is
\* reported first), and accepts every k from 1 to 1000.
C20_KRangeChecked ==
    Called("retriever") =>
        /\ (EffectiveK < 1 \/ EffectiveK > 1000) =>
               /\ rq.out.asked_k = <<>>
               /\ store_built = 0
               /\ rq.out.err = IF BlankQuery THEN QueryError ELSE KError
        /\ (EffectiveK >= 1 /\ EffectiveK <= 1000 /\ ~BlankQuery) =>
               /\ rq.out.err = None
               /\ rq.out.asked_k = <<EffectiveK>>

\* C20 witness: called without k under settings whose default is below 1,
\* the retriever raised the range error.
C20_Witness ==
    /\ Called("retriever")
    /\ rq.k = NoneK
    /\ settings.retrieval_top_k < 1
    /\ rq.out.err = KError


\* -------------------------------------------------------- ingestion: claims

\* The caches and the index, as an upsert can change them.
IngestCaches ==
    <<_embedding_model, _pinecone_index, _vector_store, emb_built, idx_built, store_built,
      index_exists, index_creates, index_spec, remote, pinecone_records, uuid_issued>>

\* C21: upsert_documents with an empty document list raises the 'Documents
\* list cannot be empty' error, and the call constructs no cached client,
\* draws no identifier and writes nothing: caches and index are as before.
C21_EmptyListRaisesFirst ==
    [][(up.pc = "idle" /\ up'.pc # "idle" /\ up'.documents = <<>>)
       => /\ up'.pc = "failed"
          /\ up'.out.err = EmptyDocumentsError
          /\ up'.out.chunks = <<>>
          /\ ~up'.out.asked_store
          /\ UNCHANGED IngestCaches]_vars

\* An empty list was handed over, with chunking arguments that are valid and
\* with ones the splitter refuses.
C21_Witness ==
    /\ up.pc = "failed"
    /\ up.documents = <<>>
    /\ up.out.err = EmptyDocumentsError
    /\ SplitterRejects(up.chunk_size, up.chunk_overlap)
    /\ _vector_store = NoStore

\* The records one successful upsert of the call's chunks leaves in the
\* index under the identifiers ids.
RecordsOf(chunks, ids, ns) ==
    {[id |-> ids[i], text |-> chunks[i], ns |-> ns] : i \in 1..Len(chunks)}

\* C22: a failure while a batch is embedded or written ends the call with
\* the underlying error and without an identifier list; and a retry with the
\* same input assigns the identifiers the failed call assigned, so that the
\* index then holds exactly the records of one successful upsert.
C22_AbortAndIdempotentRetry ==
    /\ (up.pc = "failed" /\ up.out.asked_store)
           => (up.out.err = UpstreamError /\ ~up.out.returned /\ up.out.ids = <<>>)
    /\ (up.pc = "done" /\ up.attempt = 2)
           => /\ up.out.ids = up.first.assigned
              /\ pinecone_records = RecordsOf(up.out.chunks, up.out.ids, _vector_store.ns)

C25_InvalidChunkingFailsFast ==
    (up.pc # "idle" /\ up.documents # <<>>)
        => IF up.chunk_overlap >= up.chunk_size \/ up.chunk_size <= 0
           THEN /\ up.pc = "failed"
                /\ up.out.err = SplitterError
                /\ ~up.out.asked_store
                /\ up.out.assigned = <<>>
                /\ pinecone_records = {}
           ELSE \A i \in 1..Len(up.out.chunks) : Len(up.out.chunks[i]) <= up.chunk_size

\* ------------------------------------------------- index creation: claims

\* C24: an index connection is cached, and a search or a write is issued,
\* only once the index exists; an index that is missing when the connection
\* is obtained is created with the configured dimension and the cosine
\* metric; an index that exists is not created again; and create_index is
\* requested at most once for every connection that is opened.
C24_IndexCreatedFirst ==
    /\ [](/\ (_pinecone_index # NoInstance) => index_exists
          /\ (\E t \in StoreThreads : sthr[t].pc = "exec") => index_exists
          /\ (remote # {}) => index_exists
          /\ index_creates <= idx_built)
    /\ [][/\ (~index_exists /\ index_exists')
               => (index_creates' = index_creates + 1 /\ index_spec' = ConfiguredIndexSpec)
          /\ index_exists => (index_creates' = index_creates /\ index_spec' = index_spec)
          /\ (index_creates' # index_creates) => (idx_built' = idx_built + 1)]_vars

\* The index was missing, the first call created it and wrote to it, and a
\* later search found the records.
C24_Witness ==
    /\ index_creates = 1
    /\ index_spec = ConfiguredIndexSpec
    /\ idx_built = 1
    /\ remote # {}
    /\ \E t \in StoreThreads : sthr[t].pc = "done" /\ sthr[t].op = "search" /\ sthr[t].hits # {}

\* --------------------------------------------- concurrent callers: claims

\* C28: whatever reset_retriever_cache calls run beside it, a call of
\* _get_reranker returns a constructed model, never None.
C28_NeverReturnsNone ==
    \A t \in RerankThreads :
        (rthr[t].pc = "done" /\ rthr[t].op = "get") => rthr[t].got # NoInstance

\* Every thread has made at most one call so far, and none of them a reset:
\* the calls in progress or completed are first calls of get_vector_store.
FirstCallsOnly ==
    /\ st_calls = Cardinality({t \in StoreThreads : sthr[t].pc # "idle"})
    /\ \A t \in StoreThreads : sthr[t].op # "reset"

\* C29: when the first calls of get_vector_store overlap, the embedding
\* client, the index connection and the store are constructed at most once
\* each, the index is created at most once, no call fails, and all callers
\* are handed the same store.
C29_ConcurrentFirstCallsShare ==
    FirstCallsOnly =>
        /\ emb_built <= 1
        /\ idx_built <= 1
        /\ index_creates <= 1
        /\ store_built <= 1
        /\ \A t \in StoreThreads : sthr[t].op # "raised"
        /\ \A t, u \in StoreThreads :
               (sthr[t].store # NoStore /\ sthr[u].store # NoStore)
                   => sthr[t].store = sthr[u].store

\* ----------------------------------------------------- file upload: claims

C26_ToolNeverRaises ==
    (rq.pc = "done" /\ rq.op = "tool")
        => /\ tool_out.kind # "raised"
           /\ (rq.out.err # None)
                  => (tool_out.kind = "error" /\ tool_out.text = rq.out.err)
           /\ (rq.out.err = None /\ Len(rq.out.docs) = 0)
                  => (tool_out.kind = "empty" /\ tool_out.text = "No relevant documents found")
           /\ (rq.out.err = None /\ Len(rq.out.docs) > 0)
                  => /\ tool_out.kind = "list"
                     /\ Len(tool_out.items) = Len(rq.out.docs)
                     /\ \A i \in 1..Len(rq.out.docs) :
                            /\ tool_out.items[i].number = i
                            /\ tool_out.items[i].content = rq.out.docs[i]
                            /\ tool_out.items[i].source =
                                   (IF rq.out.docs[i] = 1 THEN "Unknown" ELSE "filing")

\* The index failed under the tool's search and the agent got the error
\* answer with the failure's message.
C26_Witness ==
    /\ rq.pc = "done" /\ rq.op = "tool"
    /\ rq.out.err = IndexError
    /\ tool_out.kind = "error"
    /\ crew.pc = "done"

\* The three tasks in the order of the pipeline.
PipelineOrder == <<"research", "critique", "synthesis">>

\* C27: the crew is built with the tasks research, critique, synthesis in
\* that order under the sequential process, critique with the research task
\* as its context and synthesis with research and critique; the tasks start
\* in that order, never two at a time, and each task is handed the outputs
\* its context tasks completed with.
C27_StrictlySequential ==
    crew.pc # "idle"
        => /\ crew.tasks = PipelineOrder
           /\ crew.process = "sequential"
           /\ crew.context["research"] = <<>>
           /\ crew.context["critique"] = <<"research">>
           /\ crew.context["synthesis"] = <<"research", "critique">>
           /\ Cardinality(crew.running) <= 1
           /\ Len(crew.started) <= 3
           /\ crew.started = SubSeq(PipelineOrder, 1, Len(crew.started))
           /\ \A i \in 1..Len(crew.started) :
                  LET t == crew.started[i]
                  IN /\ \A j \in 1..(i - 1) : crew.output[PipelineOrder[j]] # None
                     /\ Len(crew.input[t]) = Len(crew.context[t])
                     /\ \A j \in 1..Len(crew.context[t]) :
                            /\ crew.input[t][j] # None
                            /\ crew.input[t][j] = crew.output[crew.context[t][j]]

\* All three tasks have run, research and critique with different outputs,
\* and synthesis was handed both.
C27_Witness ==
    /\ crew.pc = "done"
    /\ crew.output["research"] = "a"
    /\ crew.output["critique"] = "b"
    /\ crew.input["synthesis"] = <<"a", "b">>
    /\ crew.input["critique"] = <<"a">>
====
